---- MODULE Spec2Model ----
(***************************************************************************)
(* Verification model of the fitkongsns social application: the optimistic *)
(* like / follow / bookmark toggles of the React components, the API       *)
(* routes and table constraints behind them, and the mention validation of *)
(* the post and comment creation routes.                                   *)
(*                                                                         *)
(* A React component is modelled by two records: its committed state (what *)
(* the setState calls have written) and the snapshot of that state taken   *)
(* by the last render.  Event handlers are closures of the last render, so *)
(* they read the snapshot and write the committed state; code that runs    *)
(* after an await uses the locals captured before it.                      *)
(***************************************************************************)
EXTENDS Integers, Sequences, FiniteSets, TLC

\* ---------------------------------------------------------------- bounds
\* user gestures per behaviour: clicks in this tab plus requests from others
MaxGestures == 2
\* characters of a caption or comment text in a create request
MaxTextLen == 3
\* mention candidates in the payload of a create request
MaxMentions == 2
\* pieces a text handed to extractHashtags is put together from
MaxPieces == 5
\* pieces of the caption of a post whose hashtags are persisted
MaxCaptionPieces == 2
\* posts in the tables a feed request reads
MaxPosts == 3
\* posts in the tables the owner-only routes work on
MaxStorePosts == 2
\* requests the owner-only routes handle in one behaviour
MaxOps == 2
\* fetchPosts invocations of the hashtag grid in one behaviour
MaxFetches == 2
\* edits of the query of a suggestion box in one behaviour
MaxEdits == 3
\* create requests POST /api/posts handles in one behaviour of the composer
MaxCreates == 2
\* fetchPosts invocations of the home feed in one behaviour, the first load
\* included
MaxLoads == 3
\* posts created or deleted on the server in one behaviour of the home feed
MaxChanges == 2

\* ------------------------------------------------------------- universes
Users == {"me", "you"}
Viewer == "me"
Pages == {"cardLike", "cardBookmark", "modalLike", "modalBookmark", "profile"}
OnCard(pg) == pg \in {"cardLike", "cardBookmark"}
OnModal(pg) == pg \in {"modalLike", "modalBookmark"}

VARIABLES
  page,         \* the component and control the viewer operates in this behaviour
  isSignedIn,   \* Clerk session of the viewer
  profileOf,    \* the user whose profile page ProfileHeader shows
  likes,        \* likes table: number of rows per (post, user), one post
  bookmarks,    \* bookmarks table: number of rows per (post, user)
  follows,      \* follows table: number of rows per <<follower, followee>>
  card,         \* PostCard committed state
  cardView,     \* PostCard state as of the last render
  modal,        \* PostModal committed state
  modalView,    \* PostModal state as of the last render
  profile,      \* ProfileHeader committed state
  profileView,  \* ProfileHeader state as of the last render
  tasks,        \* async handler invocations suspended at an await
  clicks,       \* user gestures so far
  apiCalls,     \* requests issued by other tabs / direct API callers so far
  last,         \* the step just taken: action, task, alert shown, response
  obs,          \* observer of the like control of the post card
  comments,     \* comments table (content as persisted)
  posts,        \* posts table (caption as persisted)
  mentions,     \* mentions table
  req,          \* the create request being handled, and its response status
  extraction,   \* a call of extractHashtags: its argument and its result
  hashtags,     \* hashtags table: number of rows per tag
  post_hashtags,\* post_hashtags table: number of rows per <<post, tag>>
  creations,    \* post creations on their way through the hashtag writes
  feedDb,       \* the tables and the view a feed request reads
  feedReq,      \* the GET request being handled
  feedResp,     \* its response
  store,        \* posts, their image objects and the rows that hang on them
  accounts,     \* users rows, identity-provider profiles, profile image objects
  srvLast,      \* the request an owner-only route handled last, and its answer
  grid,         \* HashtagPostGrid state: loading, error, hasMore, page
  fetches,      \* fetchPosts invocations of the grid, with their retries
  box,          \* a suggestion box: its query, debounce timer, suggestions shown
  lookups,      \* suggestion requests that were sent and have not settled
  composer,     \* CreatePostModal: length of the caption, clicks on the emoji picker
  capRows,      \* posts table, each row as the length of its caption (-1: NULL)
  capLast,      \* status of the last answer of POST /api/posts
  timeline,     \* posts table as the home feed reads it: ids alive, changes so far
  scroll,       \* PostFeed state: posts, loading, isLoadingMore, hasMore, page
  loads         \* fetchPosts invocations of the feed that are at their await

toggleVars == <<page, isSignedIn, profileOf, likes, bookmarks, follows, card,
                cardView, modal, modalView, profile, profileView, tasks,
                clicks, apiCalls, last, obs>>
mentionVars == <<comments, posts, mentions, req>>
hashtagVars == <<extraction, hashtags, post_hashtags, creations>>
feedVars == <<feedDb, feedReq, feedResp>>
ownerVars == <<store, accounts, srvLast>>
gridVars == <<grid, fetches>>
suggestVars == <<box, lookups>>
captionVars == <<composer, capRows, capLast>>
scrollVars == <<timeline, scroll, loads>>
restVars == <<ownerVars, gridVars, suggestVars, captionVars, scrollVars>>
baseVars == <<toggleVars, mentionVars, hashtagVars, feedVars>>
notOwner == <<baseVars, gridVars, suggestVars, captionVars, scrollVars>>
notGrid == <<baseVars, ownerVars, suggestVars, captionVars, scrollVars>>
notSuggest == <<baseVars, ownerVars, gridVars, captionVars, scrollVars>>
notCaption == <<baseVars, ownerVars, gridVars, suggestVars, scrollVars>>
notScroll == <<baseVars, ownerVars, gridVars, suggestVars, captionVars>>
vars == <<toggleVars, mentionVars, hashtagVars, feedVars, restVars>>

\* ------------------------------------------------------------ db tables
\* (variant for C8: the table without its UNIQUE constraint)
UniqueInsert_NoConstraint(tbl, key) ==
  [code |-> "ok", rows |-> [tbl EXCEPT ![key] = @ + 1]]

\* INSERT into a table with UNIQUE(post_id, user_id): a second row for the
\* same key is refused with SQLSTATE 23505.
UniqueInsert(tbl, key) ==
  IF tbl[key] >= 1
    THEN [code |-> "23505", rows |-> tbl]
    ELSE [code |-> "ok", rows |-> [tbl EXCEPT ![key] = @ + 1]]

\* (variant for C5: a likes table that accepts a second row for the pair)
LikesInsert_Twice(tbl, u) ==
  [code |-> "ok", rows |-> [tbl EXCEPT ![u] = @ + 1]]

LikesInsert(tbl, u) == UniqueInsert(tbl, u)

BookmarksInsert(tbl, u) == UniqueInsert(tbl, u)

\* follows adds CHECK (follower_id != following_id), SQLSTATE 23514.
FollowsInsert(tbl, f, t) ==
  IF f = t
    THEN [code |-> "23514", rows |-> tbl]
    ELSE UniqueInsert(tbl, <<f, t>>)

\* DELETE ... WHERE key: removes every matching row, no error if none.
DeleteRows(tbl, key) == [tbl EXCEPT ![key] = 0]

LikesCount(tbl) == tbl["me"] + tbl["you"]

FollowersCount(tbl, t) == tbl[<<"me", t>>] + tbl[<<"you", t>>]

\* ---------------------------------------------------------- api routes
NoData == [on |-> FALSE, count |-> 0, bm |-> FALSE]

Resp(status, dup, data) == [status |-> status, dup |-> dup, data |-> data]

\* POST /api/likes
LikesPOST(signedIn, tbl, u) ==
  IF ~signedIn THEN [resp |-> Resp(401, FALSE, NoData), rows |-> tbl]
  ELSE LET ins == LikesInsert(tbl, u) IN
       IF ins.code = "23505"
         THEN [resp |-> Resp(409, TRUE, NoData), rows |-> ins.rows]
       ELSE IF ins.code # "ok"
         THEN [resp |-> Resp(500, FALSE, NoData), rows |-> ins.rows]
       ELSE [resp |-> Resp(200, FALSE, NoData), rows |-> ins.rows]

\* DELETE /api/likes
LikesDELETE(signedIn, tbl, u) ==
  IF ~signedIn THEN [resp |-> Resp(401, FALSE, NoData), rows |-> tbl]
  ELSE [resp |-> Resp(200, FALSE, NoData), rows |-> DeleteRows(tbl, u)]

\* GET /api/likes?post_id=
LikesGET(signedIn, tbl, u) ==
  IF ~signedIn THEN Resp(401, FALSE, NoData)
  ELSE Resp(200, FALSE, [NoData EXCEPT !.on = (tbl[u] >= 1)])

\* (variant for C6: the bookmark route answering a duplicate like the
\* like route does, with 409)
BookmarksPOST_Conflict(signedIn, tbl, u) ==
  IF ~signedIn THEN [resp |-> Resp(401, FALSE, NoData), rows |-> tbl]
  ELSE LET ins == BookmarksInsert(tbl, u) IN
       IF ins.code = "23505"
         THEN [resp |-> Resp(409, TRUE, NoData), rows |-> ins.rows]
       ELSE IF ins.code # "ok"
         THEN [resp |-> Resp(500, FALSE, NoData), rows |-> ins.rows]
       ELSE [resp |-> Resp(201, FALSE, NoData), rows |-> ins.rows]

\* POST /api/bookmarks: a unique violation is not an error
BookmarksPOST(signedIn, tbl, u) ==
  IF ~signedIn THEN [resp |-> Resp(401, FALSE, NoData), rows |-> tbl]
  ELSE LET ins == BookmarksInsert(tbl, u) IN
       IF ins.code # "ok" /\ ins.code # "23505"
         THEN [resp |-> Resp(500, FALSE, NoData), rows |-> ins.rows]
         ELSE [resp |-> Resp(201, ins.code = "23505", NoData), rows |-> ins.rows]

\* DELETE /api/bookmarks?postId=
BookmarksDELETE(signedIn, tbl, u) ==
  IF ~signedIn THEN [resp |-> Resp(401, FALSE, NoData), rows |-> tbl]
  ELSE [resp |-> Resp(200, FALSE, NoData), rows |-> DeleteRows(tbl, u)]

\* (variant for C9: the follow route without its own self-follow test)
FollowsPOST_NoSelfTest(signedIn, tbl, cur, target) ==
  IF ~signedIn THEN [resp |-> Resp(401, FALSE, NoData), rows |-> tbl]
  ELSE LET ins == FollowsInsert(tbl, cur, target) IN
       IF ins.code = "23505"
         THEN [resp |-> Resp(409, TRUE, NoData), rows |-> ins.rows]
       ELSE IF ins.code # "ok"
         THEN [resp |-> Resp(500, FALSE, NoData), rows |-> ins.rows]
       ELSE [resp |-> Resp(201, FALSE, NoData), rows |-> ins.rows]

\* POST /api/follows { following_id }
FollowsPOST(signedIn, tbl, cur, target) ==
  IF ~signedIn THEN [resp |-> Resp(401, FALSE, NoData), rows |-> tbl]
  ELSE IF cur = target THEN [resp |-> Resp(400, FALSE, NoData), rows |-> tbl]
  ELSE LET ins == FollowsInsert(tbl, cur, target) IN
       IF ins.code = "23505"
         THEN [resp |-> Resp(409, TRUE, NoData), rows |-> ins.rows]
       ELSE IF ins.code # "ok"
         THEN [resp |-> Resp(500, FALSE, NoData), rows |-> ins.rows]
       ELSE [resp |-> Resp(201, FALSE, NoData), rows |-> ins.rows]

\* DELETE /api/follows { following_id }
FollowsDELETE(signedIn, tbl, cur, target) ==
  IF ~signedIn THEN [resp |-> Resp(401, FALSE, NoData), rows |-> tbl]
  ELSE [resp |-> Resp(200, FALSE, NoData),
        rows |-> DeleteRows(tbl, <<cur, target>>)]

\* GET /api/posts/{id}: counts and, for a signed-in viewer, the two flags
PostDetailGET(signedIn, likeTbl, bmTbl, u) ==
  Resp(200, FALSE,
       [on |-> signedIn /\ likeTbl[u] >= 1,
        count |-> LikesCount(likeTbl),
        bm |-> signedIn /\ bmTbl[u] >= 1])

\* GET /api/users/{id}: stats and the viewer's follow state
UsersGET(signedIn, tbl, cur, target) ==
  Resp(200, FALSE,
       [on |-> signedIn /\ cur # target /\ tbl[<<cur, target>>] >= 1,
        count |-> FollowersCount(tbl, target),
        bm |-> FALSE])

\* ------------------------------------------------- suspended async calls
\* One record per handler invocation waiting at an await.  prevOn/prevCount
\* are the handler's locals (previousLiked, previousCount, ...); stage says
\* whether the request is still on its way ("sent"), answered ("resp"), or
\* the same for the refresh fetch a handler awaits second ("sent2"/"resp2").
NewTask(id, kind, method, prevOn, prevCount) ==
  [id |-> id, kind |-> kind, stage |-> "sent", method |-> method,
   prevOn |-> prevOn, prevCount |-> prevCount, target |-> "you",
   status |-> 0, dup |-> FALSE, data |-> NoData]

NoTask == NewTask(0 - 1, "none", "GET", FALSE, 0)

Step(act, t, alert) == [act |-> act, t |-> t, alert |-> alert]

\* response.ok
Ok(status) == status >= 200 /\ status <= 299

Answered(t, resp) ==
  [t EXCEPT !.stage = IF t.stage = "sent" THEN "resp" ELSE "resp2",
            !.status = resp.status, !.dup = resp.dup, !.data = resp.data]

\* The route a task's outstanding request reaches, applied to the tables.
ServeTask(t, lk, bm, fl) ==
  LET keep(resp) == [resp |-> resp, likes |-> lk, bookmarks |-> bm, follows |-> fl]
      onLikes(r) == [resp |-> r.resp, likes |-> r.rows, bookmarks |-> bm, follows |-> fl]
      onBms(r) == [resp |-> r.resp, likes |-> lk, bookmarks |-> r.rows, follows |-> fl]
      onFls(r) == [resp |-> r.resp, likes |-> lk, bookmarks |-> bm, follows |-> r.rows]
  IN
  CASE t.stage = "sent2" /\ t.kind = "modalLike" ->
         keep(PostDetailGET(isSignedIn, lk, bm, Viewer))
    [] t.stage = "sent2" /\ t.kind = "follow" ->
         keep(UsersGET(isSignedIn, fl, Viewer, profileOf))
    [] t.kind = "modalFetch" -> keep(PostDetailGET(isSignedIn, lk, bm, Viewer))
    [] t.kind = "profileFetch" -> keep(UsersGET(isSignedIn, fl, Viewer, profileOf))
    [] t.kind = "cardCheck" -> keep(LikesGET(isSignedIn, lk, Viewer))
    [] t.kind \in {"cardLike", "modalLike"} /\ t.method = "POST" ->
         onLikes(LikesPOST(isSignedIn, lk, Viewer))
    [] t.kind \in {"cardLike", "modalLike"} /\ t.method = "DELETE" ->
         onLikes(LikesDELETE(isSignedIn, lk, Viewer))
    [] t.kind \in {"cardBookmark", "modalBookmark"} /\ t.method = "POST" ->
         onBms(BookmarksPOST(isSignedIn, bm, Viewer))
    [] t.kind \in {"cardBookmark", "modalBookmark"} /\ t.method = "DELETE" ->
         onBms(BookmarksDELETE(isSignedIn, bm, Viewer))
    [] t.kind = "follow" /\ t.method = "POST" ->
         onFls(FollowsPOST(isSignedIn, fl, Viewer, profileOf))
    [] t.kind = "follow" /\ t.method = "DELETE" ->
         onFls(FollowsDELETE(isSignedIn, fl, Viewer, profileOf))

clientVars == <<card, cardView, modal, modalView, profile, profileView>>
fixedVars == <<page, isSignedIn, profileOf, mentionVars, hashtagVars, feedVars,
               restVars>>

\* The server handles the request of a suspended call: the route runs and
\* its response starts travelling back.
Serve(t) ==
  /\ t \in tasks /\ t.stage \in {"sent", "sent2"}
  /\ LET r == ServeTask(t, likes, bookmarks, follows)
         t2 == Answered(t, r.resp) IN
       /\ likes' = r.likes /\ bookmarks' = r.bookmarks /\ follows' = r.follows
       /\ tasks' = (tasks \ {t}) \cup {t2}
       /\ last' = Step("Serve", t2, FALSE)
  /\ UNCHANGED <<clientVars, fixedVars, clicks, apiCalls, obs>>

\* The route's catch-all / database failure: 500 and no write.
ServeFault(t) ==
  /\ t \in tasks /\ t.stage \in {"sent", "sent2"}
  /\ LET t2 == Answered(t, Resp(500, FALSE, NoData)) IN
       /\ tasks' = (tasks \ {t}) \cup {t2}
       /\ last' = Step("ServeFault", t2, FALSE)
  /\ UNCHANGED <<likes, bookmarks, follows, clientVars, fixedVars, clicks,
                 apiCalls, obs>>

\* fetch() rejects with a network error (status 0) after the route ran:
\* the response was lost.  (A request lost before the route ran differs
\* from ServeFault only in the status, which no handler reads.)
NetError(t) ==
  /\ t \in tasks /\ t.stage \in {"sent", "sent2"}
  /\ LET r == ServeTask(t, likes, bookmarks, follows)
         t2 == Answered(t, Resp(0, FALSE, NoData)) IN
       /\ likes' = r.likes /\ bookmarks' = r.bookmarks /\ follows' = r.follows
       /\ tasks' = (tasks \ {t}) \cup {t2}
       /\ last' = Step("NetError", t2, FALSE)
  /\ UNCHANGED <<clientVars, fixedVars, clicks, apiCalls, obs>>

\* The requests another client can issue against what the page shows.
ApiOps(pg) ==
  IF pg = "profile" THEN {"followPOST", "followDELETE"}
  ELSE IF pg \in {"cardLike", "modalLike"} THEN {"likePOST", "likeDELETE"}
  ELSE {"bookmarkPOST", "bookmarkDELETE"}

AllApiOps == ApiOps("cardLike") \cup ApiOps("cardBookmark") \cup ApiOps("profile")

\* A request to the API from another tab of the viewer or any other client
\* holding the viewer's session; target is the following_id of a follow call.
ApiCall(op, target) ==
  /\ op \in ApiOps(page)
  /\ clicks + apiCalls < MaxGestures
  /\ apiCalls' = apiCalls + 1
  /\ LET t == [NewTask(0 - 1, op,
                        IF op \in {"likePOST", "bookmarkPOST", "followPOST"}
                          THEN "POST" ELSE "DELETE",
                        FALSE, 0) EXCEPT !.target = target]
         r == CASE op = "likePOST" ->
                     LET x == LikesPOST(isSignedIn, likes, Viewer) IN
                     [resp |-> x.resp, likes |-> x.rows, bookmarks |-> bookmarks, follows |-> follows]
                [] op = "likeDELETE" ->
                     LET x == LikesDELETE(isSignedIn, likes, Viewer) IN
                     [resp |-> x.resp, likes |-> x.rows, bookmarks |-> bookmarks, follows |-> follows]
                [] op = "bookmarkPOST" ->
                     LET x == BookmarksPOST(isSignedIn, bookmarks, Viewer) IN
                     [resp |-> x.resp, likes |-> likes, bookmarks |-> x.rows, follows |-> follows]
                [] op = "bookmarkDELETE" ->
                     LET x == BookmarksDELETE(isSignedIn, bookmarks, Viewer) IN
                     [resp |-> x.resp, likes |-> likes, bookmarks |-> x.rows, follows |-> follows]
                [] op = "followPOST" ->
                     LET x == FollowsPOST(isSignedIn, follows, Viewer, target) IN
                     [resp |-> x.resp, likes |-> likes, bookmarks |-> bookmarks, follows |-> x.rows]
                [] op = "followDELETE" ->
                     LET x == FollowsDELETE(isSignedIn, follows, Viewer, target) IN
                     [resp |-> x.resp, likes |-> likes, bookmarks |-> bookmarks, follows |-> x.rows]
     IN /\ likes' = r.likes /\ bookmarks' = r.bookmarks /\ follows' = r.follows
        /\ last' = Step("ApiCall", Answered(t, r.resp), FALSE)
  /\ UNCHANGED <<clientVars, fixedVars, tasks, clicks, obs>>

\* --------------------------------------------------------------- PostCard
\* State after mount: isLiked starts as post.isLiked || post.isLiked ===
\* undefined, and the feed response carries no isLiked, so it starts TRUE;
\* the mount effect sets it FALSE for a signed-out viewer.
CardMounted(signedIn, likeTbl, bmTbl) ==
  [isLiked |-> signedIn,
   likesCount |-> LikesCount(likeTbl),
   isToggling |-> FALSE,
   isBookmarked |-> signedIn /\ bmTbl[Viewer] >= 1,
   isBookmarking |-> FALSE]

InFlight(kind) == {t \in tasks : t.kind = kind}

\* Observer of the like control of the card (it is no state of the
\* program).  n: like toggles that passed the guard so far; on/count: what
\* the card displayed at the first of them; fails: like requests that
\* failed; fetched: a like-status response was applied after a like toggle;
\* conflict: a like handler has received a 409.
ObsIdle ==
  [on |-> FALSE, count |-> 0, n |-> 0, fails |-> 0,
   fetched |-> FALSE, conflict |-> FALSE]

ObsGesture(r) ==
  IF r.n = 0
    THEN [r EXCEPT !.n = 1, !.on = cardView.isLiked, !.count = cardView.likesCount]
    ELSE [r EXCEPT !.n = @ + 1]

ObsSettle(r, t) ==
  [r EXCEPT !.fails = IF Ok(t.status) THEN @ ELSE @ + 1,
            !.conflict = @ \/ t.status = 409]

ObsConflict(r, t) == [r EXCEPT !.conflict = @ \/ t.status = 409]

ObsFetched(r) == [r EXCEPT !.fetched = (r.n >= 1)]

\* handleLikeToggle, up to its await: the optimistic update
CardOptimisticLike(c, v) ==
  [c EXCEPT !.isToggling = TRUE,
            !.isLiked = ~v.isLiked,
            !.likesCount = IF v.isLiked THEN v.likesCount - 1
                                        ELSE v.likesCount + 1]

\* (variant for C2: a catch block that restores the state but not the count)
CardLikeCatch_KeepCount(c, t) == [c EXCEPT !.isLiked = t.prevOn]

\* handleLikeToggle's catch block
CardLikeCatch(c, t) ==
  [c EXCEPT !.isLiked = t.prevOn, !.likesCount = t.prevCount]

\* handleLikeToggle's guard: it reads the render's isToggling
CardLikeGuard(v) == isSignedIn /\ ~v.isToggling

CardHandleLikeToggle(act) ==
  /\ clicks + apiCalls < MaxGestures
  /\ clicks' = clicks + 1
  /\ IF CardLikeGuard(cardView)
       THEN LET t == NewTask(clicks + 1, "cardLike",
                             IF cardView.isLiked THEN "DELETE" ELSE "POST",
                             cardView.isLiked, cardView.likesCount) IN
            /\ card' = CardOptimisticLike(card, cardView)
            /\ tasks' = tasks \cup {t}
            /\ obs' = ObsGesture(obs)
            /\ last' = Step(act, t, FALSE)
       ELSE /\ UNCHANGED <<card, tasks, obs>>
            /\ last' = Step(act, NoTask, FALSE)
  /\ UNCHANGED <<likes, bookmarks, follows, cardView, modal, modalView,
                 profile, profileView, fixedVars, apiCalls>>

\* the heart button (rendered with disabled={isToggling})
CardClickLike ==
  /\ page = "cardLike" /\ ~cardView.isToggling
  /\ CardHandleLikeToggle("CardClickLike")

\* handleDoubleTap on the image: likes the post when it is shown not liked
CardDoubleTap ==
  /\ page = "cardLike" /\ isSignedIn /\ ~cardView.isLiked
  /\ CardHandleLikeToggle("CardDoubleTap")

\* handleLikeToggle after its await: success, or catch, then finally
CardLikeSettle(t) ==
  /\ t \in tasks /\ t.kind = "cardLike" /\ t.stage = "resp"
  /\ tasks' = tasks \ {t}
  /\ card' = [(IF Ok(t.status) THEN card ELSE CardLikeCatch(card, t))
                EXCEPT !.isToggling = FALSE]
  /\ obs' = ObsSettle(obs, t)
  /\ last' = Step("CardLikeSettle", t, ~Ok(t.status))
  /\ UNCHANGED <<likes, bookmarks, follows, cardView, modal, modalView,
                 profile, profileView, fixedVars, clicks, apiCalls>>

\* checkLikeStatus after its await
CardCheckSettle(t) ==
  /\ t \in tasks /\ t.kind = "cardCheck" /\ t.stage = "resp"
  /\ tasks' = tasks \ {t}
  /\ card' = IF Ok(t.status) THEN [card EXCEPT !.isLiked = t.data.on] ELSE card
  /\ obs' = IF Ok(t.status) THEN ObsFetched(obs) ELSE obs
  /\ last' = Step("CardCheckSettle", t, FALSE)
  /\ UNCHANGED <<likes, bookmarks, follows, cardView, modal, modalView,
                 profile, profileView, fixedVars, clicks, apiCalls>>

\* handleBookmarkToggle, up to its await: only the in-flight flag is set
CardBookmarkStart(c, v) == [c EXCEPT !.isBookmarking = TRUE]

\* handleBookmarkToggle after a successful response
CardBookmarkDone(c, t) == [c EXCEPT !.isBookmarked = ~t.prevOn]

CardClickBookmark ==
  /\ page = "cardBookmark" /\ ~cardView.isBookmarking
  /\ clicks + apiCalls < MaxGestures
  /\ clicks' = clicks + 1
  /\ IF isSignedIn /\ ~cardView.isBookmarking
       THEN LET t == NewTask(clicks + 1, "cardBookmark",
                             IF cardView.isBookmarked THEN "DELETE" ELSE "POST",
                             cardView.isBookmarked, 0) IN
            /\ card' = CardBookmarkStart(card, cardView)
            /\ tasks' = tasks \cup {t}
            /\ last' = Step("CardClickBookmark", t, FALSE)
       ELSE /\ UNCHANGED <<card, tasks>>
            /\ last' = Step("CardClickBookmark", NoTask, FALSE)
  /\ UNCHANGED <<likes, bookmarks, follows, cardView, modal, modalView,
                 profile, profileView, fixedVars, apiCalls, obs>>

CardBookmarkSettle(t) ==
  /\ t \in tasks /\ t.kind = "cardBookmark" /\ t.stage = "resp"
  /\ tasks' = tasks \ {t}
  /\ card' = [(IF Ok(t.status) THEN CardBookmarkDone(card, t) ELSE card)
                EXCEPT !.isBookmarking = FALSE]
  /\ last' = Step("CardBookmarkSettle", t, ~Ok(t.status))
  /\ UNCHANGED <<likes, bookmarks, follows, cardView, modal, modalView,
                 profile, profileView, fixedVars, clicks, apiCalls, obs>>

\* React re-renders the card: handlers and the DOM now see the new state
CardRender ==
  /\ cardView # card
  /\ cardView' = card
  /\ last' = Step("CardRender", NoTask, FALSE)
  /\ UNCHANGED <<likes, bookmarks, follows, card, modal, modalView, profile,
                 profileView, tasks, fixedVars, clicks, apiCalls, obs>>

\* ---------------------------------------------------------- ProfileHeader
ProfileMounted ==
  [userData |-> FALSE, loading |-> TRUE, error |-> FALSE,
   isFollowing |-> FALSE, followersCount |-> 0, isToggling |-> FALSE]

\* fetchUserData up to its await
FetchUserDataStart(p) == [p EXCEPT !.loading = TRUE, !.error = FALSE]

\* fetchUserData after its await: the data is applied, or the error is set
FetchUserDataDone(p, t) ==
  [(IF Ok(t.status)
      THEN [p EXCEPT !.userData = TRUE, !.isFollowing = t.data.on,
                     !.followersCount = t.data.count]
      ELSE [p EXCEPT !.error = TRUE])
    EXCEPT !.loading = FALSE]

\* the follow button is rendered only past the skeleton and the error view,
\* and never on the viewer's own profile
FollowButtonShown(v) ==
  ~v.loading /\ ~v.error /\ v.userData /\ profileOf # Viewer

\* handleFollowToggle's guard
FollowGuard(v) ==
  isSignedIn /\ v.userData /\ profileOf # Viewer /\ ~v.isToggling

\* handleFollowToggle up to its await: the optimistic update
FollowOptimistic(p, v) ==
  [p EXCEPT !.isToggling = TRUE,
            !.isFollowing = ~v.isFollowing,
            !.followersCount = IF v.isFollowing THEN v.followersCount - 1
                                                ELSE v.followersCount + 1]

\* handleFollowToggle's catch block
FollowCatch(p, t) ==
  [p EXCEPT !.isFollowing = t.prevOn, !.followersCount = t.prevCount]

ProfileClickFollow ==
  /\ page = "profile" /\ FollowButtonShown(profileView)
  /\ ~profileView.isToggling
  /\ clicks + apiCalls < MaxGestures
  /\ clicks' = clicks + 1
  /\ IF FollowGuard(profileView)
       THEN LET t == NewTask(clicks + 1, "follow",
                             IF profileView.isFollowing THEN "DELETE" ELSE "POST",
                             profileView.isFollowing,
                             profileView.followersCount) IN
            /\ profile' = FollowOptimistic(profile, profileView)
            /\ tasks' = tasks \cup {t}
            /\ last' = Step("ProfileClickFollow", t, FALSE)
       ELSE /\ UNCHANGED <<profile, tasks>>
            /\ last' = Step("ProfileClickFollow", NoTask, FALSE)
  /\ UNCHANGED <<likes, bookmarks, follows, card, cardView, modal, modalView,
                 profileView, fixedVars, apiCalls, obs>>

\* (variant for C26: a finally block that leaves the guard set)
FollowFinally_Keep(p) == p

\* handleFollowToggle's finally block
FollowFinally(p) == [p EXCEPT !.isToggling = FALSE]

\* handleFollowToggle after the toggle request: on success it awaits
\* fetchUserData, on failure it rolls back, alerts and releases the guard
FollowSettle(t) ==
  /\ t \in tasks /\ t.kind = "follow" /\ t.stage = "resp"
  /\ IF Ok(t.status)
       THEN /\ profile' = FetchUserDataStart(profile)
            /\ tasks' = (tasks \ {t}) \cup
                        {[t EXCEPT !.stage = "sent2", !.method = "GET",
                                   !.status = 0, !.dup = FALSE]}
       ELSE /\ profile' = FollowFinally(FollowCatch(profile, t))
            /\ tasks' = tasks \ {t}
  /\ last' = Step("FollowSettle", t, ~Ok(t.status))
  /\ UNCHANGED <<likes, bookmarks, follows, card, cardView, modal, modalView,
                 profileView, fixedVars, clicks, apiCalls, obs>>

\* the awaited fetchUserData returns, then handleFollowToggle's finally
FollowRefreshed(t) ==
  /\ t \in tasks /\ t.kind = "follow" /\ t.stage = "resp2"
  /\ profile' = FollowFinally(FetchUserDataDone(profile, t))
  /\ tasks' = tasks \ {t}
  /\ last' = Step("FollowRefreshed", t, FALSE)
  /\ UNCHANGED <<likes, bookmarks, follows, card, cardView, modal, modalView,
                 profileView, fixedVars, clicks, apiCalls, obs>>

\* the fetchUserData started by the mount effect or the retry button returns
ProfileFetchSettle(t) ==
  /\ t \in tasks /\ t.kind = "profileFetch" /\ t.stage = "resp"
  /\ profile' = FetchUserDataDone(profile, t)
  /\ tasks' = tasks \ {t}
  /\ last' = Step("ProfileFetchSettle", t, FALSE)
  /\ UNCHANGED <<likes, bookmarks, follows, card, cardView, modal, modalView,
                 profileView, fixedVars, clicks, apiCalls, obs>>

\* the retry button of the error view
ProfileClickRetry ==
  /\ page = "profile"
  /\ ~profileView.loading /\ (profileView.error \/ ~profileView.userData)
  /\ clicks + apiCalls < MaxGestures
  /\ clicks' = clicks + 1
  /\ LET t == NewTask(clicks + 1, "profileFetch", "GET", FALSE, 0) IN
       /\ profile' = FetchUserDataStart(profile)
       /\ tasks' = tasks \cup {t}
       /\ last' = Step("ProfileClickRetry", t, FALSE)
  /\ UNCHANGED <<likes, bookmarks, follows, card, cardView, modal, modalView,
                 profileView, fixedVars, apiCalls, obs>>

ProfileRender ==
  /\ profileView # profile
  /\ profileView' = profile
  /\ last' = Step("ProfileRender", NoTask, FALSE)
  /\ UNCHANGED <<likes, bookmarks, follows, card, cardView, modal, modalView,
                 profile, tasks, fixedVars, clicks, apiCalls, obs>>

\* -------------------------------------------------------------- PostModal
\* The modal as opened from a card whose own buttons are left alone: its
\* state starts from the card's props, and initialIsBookmarked is the prop
\* the card passes down (the card's isBookmarked, which onBookmarkChange
\* writes).
ModalOpened(c) ==
  [post |-> FALSE, loading |-> TRUE, error |-> FALSE,
   isLiked |-> c.isLiked, likesCount |-> c.likesCount,
   isBookmarked |-> c.isBookmarked, isBookmarking |-> FALSE,
   isToggling |-> FALSE, initialIsBookmarked |-> c.isBookmarked]

\* fetchPost up to its await
FetchPostStart(m) == [m EXCEPT !.loading = TRUE, !.error = FALSE]

\* fetchPost after its await
FetchPostDone(m, t) ==
  [(IF Ok(t.status)
      THEN [m EXCEPT !.post = TRUE, !.likesCount = t.data.count,
                     !.isLiked = t.data.on, !.isBookmarked = t.data.bm,
                     !.initialIsBookmarked = t.data.bm]
      ELSE [m EXCEPT !.error = TRUE])
    EXCEPT !.loading = FALSE]

\* the action bar is rendered only past the spinner and the error view
ModalButtonsShown(v) == ~v.loading /\ ~v.error /\ v.post

ModalLikeGuard(v) == isSignedIn /\ v.post /\ ~v.isToggling

ModalOptimisticLike(m, v) ==
  [m EXCEPT !.isToggling = TRUE,
            !.isLiked = ~v.isLiked,
            !.likesCount = IF v.isLiked THEN v.likesCount - 1
                                        ELSE v.likesCount + 1]

ModalLikeCatch(m, t) ==
  [m EXCEPT !.isLiked = t.prevOn, !.likesCount = t.prevCount]

ModalClickLike ==
  /\ page = "modalLike" /\ ModalButtonsShown(modalView) /\ ~modalView.isToggling
  /\ clicks + apiCalls < MaxGestures
  /\ clicks' = clicks + 1
  /\ IF ModalLikeGuard(modalView)
       THEN LET t == NewTask(clicks + 1, "modalLike",
                             IF modalView.isLiked THEN "DELETE" ELSE "POST",
                             modalView.isLiked, modalView.likesCount) IN
            /\ modal' = ModalOptimisticLike(modal, modalView)
            /\ tasks' = tasks \cup {t}
            /\ last' = Step("ModalClickLike", t, FALSE)
       ELSE /\ UNCHANGED <<modal, tasks>>
            /\ last' = Step("ModalClickLike", NoTask, FALSE)
  /\ UNCHANGED <<likes, bookmarks, follows, card, cardView, modalView,
                 profile, profileView, fixedVars, apiCalls, obs>>

\* handleLikeToggle after the toggle request: on success it awaits fetchPost
ModalLikeSettle(t) ==
  /\ t \in tasks /\ t.kind = "modalLike" /\ t.stage = "resp"
  /\ IF Ok(t.status)
       THEN /\ modal' = FetchPostStart(modal)
            /\ tasks' = (tasks \ {t}) \cup
                        {[t EXCEPT !.stage = "sent2", !.method = "GET",
                                   !.status = 0, !.dup = FALSE]}
       ELSE /\ modal' = [ModalLikeCatch(modal, t) EXCEPT !.isToggling = FALSE]
            /\ tasks' = tasks \ {t}
  /\ obs' = ObsConflict(obs, t)
  /\ last' = Step("ModalLikeSettle", t, ~Ok(t.status))
  /\ UNCHANGED <<likes, bookmarks, follows, card, cardView, modalView,
                 profile, profileView, fixedVars, clicks, apiCalls>>

\* the awaited fetchPost returns, then handleLikeToggle's finally
ModalLikeRefreshed(t) ==
  /\ t \in tasks /\ t.kind = "modalLike" /\ t.stage = "resp2"
  /\ modal' = [FetchPostDone(modal, t) EXCEPT !.isToggling = FALSE]
  /\ tasks' = tasks \ {t}
  /\ last' = Step("ModalLikeRefreshed", t, FALSE)
  /\ UNCHANGED <<likes, bookmarks, follows, card, cardView, modalView,
                 profile, profileView, fixedVars, clicks, apiCalls, obs>>

\* the fetchPost started by the open effect returns
ModalFetchSettle(t) ==
  /\ t \in tasks /\ t.kind = "modalFetch" /\ t.stage = "resp"
  /\ modal' = FetchPostDone(modal, t)
  /\ tasks' = tasks \ {t}
  /\ last' = Step("ModalFetchSettle", t, FALSE)
  /\ UNCHANGED <<likes, bookmarks, follows, card, cardView, modalView,
                 profile, profileView, fixedVars, clicks, apiCalls, obs>>

\* handleBookmarkToggle up to its await: only the in-flight flag is set
ModalBookmarkStart(m, v) == [m EXCEPT !.isBookmarking = TRUE]

\* handleBookmarkToggle after its await: success (with onBookmarkChange),
\* or the catch block
ModalBookmarkDone(m, t) ==
  IF Ok(t.status)
    THEN [m EXCEPT !.isBookmarked = ~t.prevOn, !.initialIsBookmarked = ~t.prevOn]
    ELSE [m EXCEPT !.isBookmarked = t.prevOn]

ModalClickBookmark ==
  /\ page = "modalBookmark" /\ ModalButtonsShown(modalView) /\ ~modalView.isBookmarking
  /\ clicks + apiCalls < MaxGestures
  /\ clicks' = clicks + 1
  /\ IF isSignedIn /\ modalView.post /\ ~modalView.isBookmarking
       THEN LET t == NewTask(clicks + 1, "modalBookmark",
                             IF modalView.isBookmarked THEN "DELETE" ELSE "POST",
                             modalView.isBookmarked, 0) IN
            /\ modal' = ModalBookmarkStart(modal, modalView)
            /\ tasks' = tasks \cup {t}
            /\ last' = Step("ModalClickBookmark", t, FALSE)
       ELSE /\ UNCHANGED <<modal, tasks>>
            /\ last' = Step("ModalClickBookmark", NoTask, FALSE)
  /\ UNCHANGED <<likes, bookmarks, follows, card, cardView, modalView,
                 profile, profileView, fixedVars, apiCalls, obs>>

ModalBookmarkSettle(t) ==
  /\ t \in tasks /\ t.kind = "modalBookmark" /\ t.stage = "resp"
  /\ tasks' = tasks \ {t}
  /\ modal' = [ModalBookmarkDone(modal, t) EXCEPT !.isBookmarking = FALSE]
  /\ last' = Step("ModalBookmarkSettle", t, ~Ok(t.status))
  /\ UNCHANGED <<likes, bookmarks, follows, card, cardView, modalView,
                 profile, profileView, fixedVars, clicks, apiCalls, obs>>

\* The viewer closes the dialog and opens it again: the effects keyed on
\* `open` run, one resets isBookmarked to the prop, the other calls fetchPost.
ModalReopen ==
  /\ OnModal(page)
  /\ clicks + apiCalls < MaxGestures
  /\ clicks' = clicks + 1
  /\ LET t == NewTask(clicks + 1, "modalFetch", "GET", FALSE, 0) IN
       /\ modal' = FetchPostStart([modal EXCEPT
                                     !.isBookmarked = modal.initialIsBookmarked])
       /\ tasks' = tasks \cup {t}
       /\ last' = Step("ModalReopen", t, FALSE)
  /\ UNCHANGED <<likes, bookmarks, follows, card, cardView, modalView,
                 profile, profileView, fixedVars, apiCalls, obs>>

ModalRender ==
  /\ modalView # modal
  /\ modalView' = modal
  /\ last' = Step("ModalRender", NoTask, FALSE)
  /\ UNCHANGED <<likes, bookmarks, follows, card, cardView, modal, profile,
                 profileView, tasks, fixedVars, clicks, apiCalls, obs>>

\* ------------------------------------------------------ the toggle system
Tables01 == [Users -> {0, 1}]
NoRows == [u \in Users |-> 0]
NoFollows == [p \in Users \X Users |-> 0]

InitToggle ==
  /\ page \in Pages
  /\ isSignedIn \in BOOLEAN
  /\ profileOf \in (IF page = "profile" THEN Users ELSE {"you"})
  /\ likes \in (IF page \in {"cardLike", "modalLike"} THEN Tables01 ELSE {NoRows})
  /\ bookmarks \in (IF page \in {"cardBookmark", "modalBookmark"}
                    THEN {[NoRows EXCEPT ![Viewer] = n] : n \in {0, 1}}
                    ELSE {NoRows})
  /\ follows \in (IF page = "profile"
                  THEN {[NoFollows EXCEPT ![<<"me", "you">>] = a,
                                          ![<<"you", "me">>] = b] :
                          a \in {0, 1}, b \in {0, 1}}
                  ELSE {NoFollows})
  /\ card = CardMounted(isSignedIn, likes, bookmarks)
  /\ cardView = card
  /\ modal = ModalOpened(card)
  /\ modalView = modal
  /\ profile = ProfileMounted
  /\ profileView = profile
  /\ tasks = (IF OnCard(page) /\ isSignedIn
                THEN {NewTask(0, "cardCheck", "GET", FALSE, 0)}
              ELSE IF OnModal(page)
                THEN {NewTask(0, "modalFetch", "GET", FALSE, 0)}
              ELSE IF page = "profile"
                THEN {NewTask(0, "profileFetch", "GET", FALSE, 0)}
              ELSE {})
  /\ clicks = 0
  /\ apiCalls = 0
  /\ last = Step("Init", NoTask, FALSE)
  /\ obs = ObsIdle

\* one post exists, created earlier without a caption
NullCaption == [isNull |-> TRUE, text |-> <<>>]
SeedPosts == <<[id |-> 1, caption |-> NullCaption]>>
NoRequest == [route |-> "none", status |-> 0]

InitMentionIdle ==
  /\ comments = <<>>
  /\ posts = SeedPosts
  /\ mentions = <<>>
  /\ req = NoRequest

Next ==
  \/ \E t \in tasks : Serve(t)
  \/ \E t \in tasks : ServeFault(t)
  \/ \E t \in tasks : NetError(t)
  \/ \E op \in AllApiOps, target \in Users : ApiCall(op, target)
  \/ CardClickLike
  \/ CardDoubleTap
  \/ \E t \in tasks : CardLikeSettle(t)
  \/ \E t \in tasks : CardCheckSettle(t)
  \/ CardClickBookmark
  \/ \E t \in tasks : CardBookmarkSettle(t)
  \/ CardRender
  \/ ProfileClickFollow
  \/ \E t \in tasks : FollowSettle(t)
  \/ \E t \in tasks : FollowRefreshed(t)
  \/ \E t \in tasks : ProfileFetchSettle(t)
  \/ ProfileClickRetry
  \/ ProfileRender
  \/ ModalClickLike
  \/ \E t \in tasks : ModalLikeSettle(t)
  \/ \E t \in tasks : ModalLikeRefreshed(t)
  \/ \E t \in tasks : ModalFetchSettle(t)
  \/ ModalClickBookmark
  \/ \E t \in tasks : ModalBookmarkSettle(t)
  \/ ModalReopen
  \/ ModalRender

\* ------------------------------------------------- text, as JS strings
Chars == {"@", "b", "B", " "}

Texts(n) == UNION {[1..k -> Chars] : k \in 0..n}

\* String.prototype.toLowerCase
ToLower(s) ==
  [i \in 1..Len(s) |-> IF s[i] = "B" THEN "b" ELSE IF s[i] = "A" THEN "a" ELSE s[i]]

\* String.prototype.trim
Trim(s) ==
  LET solid == {i \in 1..Len(s) : s[i] # " "} IN
  IF solid = {} THEN <<>>
  ELSE LET first == CHOOSE i \in solid : \A j \in solid : i <= j
           final == CHOOSE i \in solid : \A j \in solid : j <= i
       IN SubSeq(s, first, final)

\* String.prototype.includes
Includes(s, k) ==
  \E i \in 0..(Len(s) - Len(k)) : SubSeq(s, i + 1, i + Len(k)) = k

\* ------------------------------------------- post and comment creation
MentionedIds == {"u1", "u2"}
DisplayTexts == {<<>>, <<"b">>, <<"B">>, <<"b", " ">>}
Candidates == [mentioned_user_id : MentionedIds, display_text : DisplayTexts]
Payloads == UNION {[1..k -> Candidates] : k \in 0..MaxMentions}

\* a value of the multipart "caption" field: absent, or a string
Captions == {NullCaption} \cup {[isNull |-> FALSE, text |-> x] : x \in Texts(MaxTextLen)}

\* the "image" field: absent, not an image, larger than MAX_FILE_SIZE, fine
Images == {"missing", "notImage", "tooBig", "ok"}

PostRequests ==
  [route : {"posts"}, auth : BOOLEAN, caption : Captions, image : Images,
   mentions : Payloads, status : {0}]

\* post_id: 0 absent, 1 the existing post, 2 no such post
CommentRequests ==
  [route : {"comments"}, auth : BOOLEAN, post_id : {0, 1, 2},
   content : Texts(MaxTextLen), mentions : Payloads, status : {0}]

\* (variant for C11: the filter without its `seen` set)
ValidMentions_NoSeen(payload, normalized, seen) ==
  SelectSeq(payload,
            LAMBDA mention :
              Includes(normalized, <<"@">> \o ToLower(mention.display_text)))

\* the filter both routes run over the payload, with its `seen` set
RECURSIVE ValidMentions(_, _, _)
ValidMentions(payload, normalized, seen) ==
  IF payload = <<>> THEN <<>>
  ELSE LET mention == Head(payload)
           key == <<"@">> \o ToLower(mention.display_text)
           uniqueKey == <<mention.mentioned_user_id, key>>
       IN IF ~Includes(normalized, key) \/ uniqueKey \in seen
            THEN ValidMentions(Tail(payload), normalized, seen)
            ELSE <<mention>> \o
                 ValidMentions(Tail(payload), normalized, seen \cup {uniqueKey})

\* (variant for C12: rows that name the created record in both columns)
MentionRows_BothParents(valid, postId, commentId) ==
  [i \in 1..Len(valid) |->
     [post_id |-> postId + commentId, comment_id |-> postId + commentId,
      mentioned_user_id |-> valid[i].mentioned_user_id,
      display_text |-> valid[i].display_text]]

MentionRows(valid, postId, commentId) ==
  [i \in 1..Len(valid) |->
     [post_id |-> postId, comment_id |-> commentId,
      mentioned_user_id |-> valid[i].mentioned_user_id,
      display_text |-> valid[i].display_text]]

\* INSERT of several rows into mentions: the table's CHECK wants exactly
\* one of post_id / comment_id set, and a refused row refuses the statement
\* (both routes ignore the error).  0 stands for NULL.
MentionsInsert(tbl, rows) ==
  IF \E i \in 1..Len(rows) : (rows[i].post_id # 0) = (rows[i].comment_id # 0)
    THEN tbl
    ELSE tbl \o rows

\* caption || null
CaptionOrNull(c) == IF c.isNull \/ c.text = <<>> THEN NullCaption ELSE c

\* POST /api/posts
PostsPOST ==
  /\ req.route = "posts" /\ req.status = 0
  /\ IF ~req.auth
       THEN req' = [req EXCEPT !.status = 401]
            /\ UNCHANGED <<posts, mentions>>
     ELSE IF req.image # "ok"
       THEN req' = [req EXCEPT !.status = 400]
            /\ UNCHANGED <<posts, mentions>>
     ELSE LET postData == [id |-> Len(posts) + 1,
                           caption |-> CaptionOrNull(req.caption)]
              normalizedCaption == ToLower(req.caption.text)
              valid == ValidMentions(req.mentions, normalizedCaption, {})
          IN /\ posts' = Append(posts, postData)
             /\ mentions' = MentionsInsert(mentions, MentionRows(valid, postData.id, 0))
             /\ req' = [req EXCEPT !.status = 201]
  /\ UNCHANGED <<comments, toggleVars, hashtagVars, feedVars, restVars>>

\* POST /api/comments
CommentsPOST ==
  /\ req.route = "comments" /\ req.status = 0
  /\ IF ~req.auth
       THEN req' = [req EXCEPT !.status = 401]
            /\ UNCHANGED <<comments, mentions>>
     ELSE IF req.post_id = 0 \/ req.content = <<>> \/ Trim(req.content) = <<>>
       THEN req' = [req EXCEPT !.status = 400]
            /\ UNCHANGED <<comments, mentions>>
     ELSE IF ~(\E i \in 1..Len(posts) : posts[i].id = req.post_id)
       THEN req' = [req EXCEPT !.status = 404]
            /\ UNCHANGED <<comments, mentions>>
     ELSE LET commentData == [id |-> Len(comments) + 1, post_id |-> req.post_id,
                              content |-> Trim(req.content)]
              normalizedContent == ToLower(req.content)
              valid == ValidMentions(req.mentions, normalizedContent, {})
          IN /\ comments' = Append(comments, commentData)
             /\ mentions' = MentionsInsert(mentions, MentionRows(valid, 0, commentData.id))
             /\ req' = [req EXCEPT !.status = 201]
  /\ UNCHANGED <<posts, toggleVars, hashtagVars, feedVars, restVars>>

\* ------------------------------------------------------- extractHashtags
\* [\p{L}\p{N}_]
TagChars == {"a", "A", "b", "_", "1"}
IsTagChar(c) == c \in TagChars

\* the texts tried: concatenations of these pieces
Pieces == {<<"#", "a">>, <<"#", "A">>, <<"#", "b">>, <<" ">>, <<"#">>, <<"_", "1">>}

RECURSIVE Flatten(_)
Flatten(ps) == IF ps = <<>> THEN <<>> ELSE Head(ps) \o Flatten(Tail(ps))

HashTexts(n) == {Flatten(ps) : ps \in UNION {[1..k -> Pieces] : k \in 0..n}}

\* the argument: null, or a string
HashArgs(n) == {NullCaption} \cup {[isNull |-> FALSE, text |-> x] : x \in HashTexts(n)}

\* the last index of the longest run of tag characters that starts at i
RECURSIVE RunEnd(_, _)
RunEnd(s, i) ==
  IF i + 1 <= Len(s) /\ IsTagChar(s[i + 1]) THEN RunEnd(s, i + 1) ELSE i

\* text.matchAll(HASHTAG_REGEX), scanning from index i: the capture groups
RECURSIVE MatchAll(_, _)
MatchAll(s, i) ==
  IF i > Len(s) THEN <<>>
  ELSE IF s[i] = "#" /\ i + 1 <= Len(s) /\ IsTagChar(s[i + 1])
    THEN LET e == RunEnd(s, i + 1) IN <<SubSeq(s, i + 1, e)>> \o MatchAll(s, e + 1)
    ELSE MatchAll(s, i + 1)

\* (variant for C13: a collection that keeps repeated tags)
SetAdd_Always(tags, tag) == Append(tags, tag)

\* Set.prototype.add, the set kept in insertion order
SetAdd(tags, tag) ==
  IF \E k \in 1..Len(tags) : tags[k] = tag THEN tags ELSE Append(tags, tag)

\* the for loop over the matches
RECURSIVE CollectTags(_, _)
CollectTags(matches, tags) ==
  IF matches = <<>> THEN tags
  ELSE CollectTags(Tail(matches), SetAdd(tags, ToLower(Head(matches))))

\* extractHashtags: Array.from(tags)
ExtractHashtags(text) ==
  IF text.isNull \/ text.text = <<>> THEN <<>>
  ELSE CollectTags(MatchAll(text.text, 1), <<>>)

NoExtraction == [arg |-> NullCaption, done |-> TRUE, tags |-> <<>>]

\* a caller evaluates extractHashtags(arg)
ExtractCall ==
  /\ ~extraction.done
  /\ extraction' = [extraction EXCEPT !.done = TRUE,
                                      !.tags = ExtractHashtags(extraction.arg)]
  /\ UNCHANGED <<hashtags, post_hashtags, creations, toggleVars, mentionVars,
                 feedVars, restVars>>

\* ------------------------------------------- persisting a post's hashtags
\* hashtags and post_hashtags are sequences of rows: a hashtags row is its
\* tag, a post_hashtags row is [post_id, tag] (the tag standing for the
\* hashtag_id of its dictionary row).
RowCount(tbl, key) == Cardinality({i \in 1..Len(tbl) : tbl[i] = key})

\* (variant for C14: a write that adds the row whether or not it exists)
Upsert_AlwaysInsert(tbl, key) == Append(tbl, key)

\* upsert(row, { onConflict: <the table's unique columns> })
Upsert(tbl, key) == IF RowCount(tbl, key) >= 1 THEN tbl ELSE Append(tbl, key)

RECURSIVE UpsertAll(_, _)
UpsertAll(tbl, keys) ==
  IF keys = <<>> THEN tbl ELSE UpsertAll(Upsert(tbl, Head(keys)), Tail(keys))

\* select("id, tag").in("tag", tags)
SelectTags(tbl, tags) ==
  SelectSeq(tbl, LAMBDA row : \E k \in 1..Len(tags) : tags[k] = row)

Creators == {"c1", "c2"}

NewCreation(caption) ==
  [caption |-> caption, stage |-> "start", postId |-> 0, tags |-> <<>>,
   tagRecords |-> <<>>, status |-> 0]

PostsCreated == Cardinality({c \in Creators : creations[c].postId # 0})

\* POST /api/posts up to the hashtag block: the post row is inserted and
\* the caption's hashtags are extracted; without hashtags the route is done
CreationInsertPost(c) ==
  /\ creations[c].stage = "start"
  /\ LET tags == ExtractHashtags(creations[c].caption) IN
       creations' = [creations EXCEPT
                       ![c].postId = PostsCreated + 1,
                       ![c].tags = tags,
                       ![c].stage = IF tags = <<>> THEN "done" ELSE "posted",
                       ![c].status = IF tags = <<>> THEN 201 ELSE 0]
  /\ UNCHANGED <<extraction, hashtags, post_hashtags, toggleVars, mentionVars,
                 feedVars, restVars>>

\* the upsert into hashtags, and the select that follows when it returned
\* fewer rows than there are tags
CreationUpsertTags(c) ==
  /\ creations[c].stage = "posted"
  /\ LET written == UpsertAll(hashtags, creations[c].tags)
         upsertedTags == SelectTags(written, creations[c].tags)
         tagRecords == IF Len(upsertedTags) < Len(creations[c].tags)
                         THEN SelectTags(written, creations[c].tags)
                         ELSE upsertedTags
     IN /\ hashtags' = written
        /\ creations' = [creations EXCEPT
                           ![c].tagRecords = tagRecords,
                           ![c].stage = IF tagRecords = <<>> THEN "done" ELSE "upserted",
                           ![c].status = IF tagRecords = <<>> THEN 201 ELSE 0]
  /\ UNCHANGED <<extraction, post_hashtags, toggleVars, mentionVars, feedVars, restVars>>

\* the upsert into post_hashtags, then the 201 response
CreationLinkTags(c) ==
  /\ creations[c].stage = "upserted"
  /\ LET rows == [i \in 1..Len(creations[c].tagRecords) |->
                    [post_id |-> creations[c].postId,
                     tag |-> creations[c].tagRecords[i]]]
     IN post_hashtags' = UpsertAll(post_hashtags, rows)
  /\ creations' = [creations EXCEPT ![c].stage = "done", ![c].status = 201]
  /\ UNCHANGED <<extraction, hashtags, toggleVars, mentionVars, feedVars, restVars>>

NoCreations == [c \in Creators |-> [NewCreation(NullCaption) EXCEPT !.stage = "idle"]]

InitHashtagIdle ==
  /\ extraction = NoExtraction
  /\ hashtags = <<>>
  /\ post_hashtags = <<>>
  /\ creations = NoCreations

\* either one call of extractHashtags, or two post creations side by side
InitHashtag ==
  /\ hashtags = <<>>
  /\ post_hashtags = <<>>
  /\ \/ /\ extraction \in [arg : HashArgs(MaxPieces), done : {FALSE}, tags : {<<>>}]
        /\ creations = NoCreations
     \/ /\ extraction = NoExtraction
        /\ creations \in [Creators -> {NewCreation(a) : a \in HashArgs(MaxCaptionPieces)}]

NextHashtag ==
  \/ ExtractCall
  \/ \E c \in Creators : CreationInsertPost(c)
  \/ \E c \in Creators : CreationUpsertTags(c)
  \/ \E c \in Creators : CreationLinkTags(c)

\* -------------------------------------------------- GET /api/posts (feed)
\* feedDb.posts is the posts table in creation order: the post with id i
\* is the i-th created, so a larger id is a later created_at.  A post row
\* is [user_id, likedBy]: its author and the users with a like row on it.
\* feedDb.links is the post_id column of the post_hashtags rows of the tag
\* "t", in the order the table returns them without ORDER BY.
\* feedDb.bookmarks is the set of posts the viewer has a bookmark row on,
\* feedDb.view tells whether the post_stats view can be queried.
PostIds(db) == 1..Len(db.posts)

Max(S) == CHOOSE m \in S : \A x \in S : x <= m

\* ORDER BY created_at DESC
RECURSIVE SortDesc(_)
SortDesc(S) == IF S = {} THEN <<>> ELSE <<Max(S)>> \o SortDesc(S \ {Max(S)})

\* (variant for C15: a window that starts one row late)
Range_OneLate(list, from, to) ==
  IF from + 1 >= Len(list) THEN <<>>
  ELSE SubSeq(list, from + 2, IF to + 2 <= Len(list) THEN to + 2 ELSE Len(list))

\* .range(from, to): rows from..to of the result, counted from 0, both ends
\* included
Range(list, from, to) ==
  IF from >= Len(list) THEN <<>>
  ELSE SubSeq(list, from + 1, IF to + 1 <= Len(list) THEN to + 1 ELSE Len(list))

\* Array.prototype.slice(start, end)
Slice(list, start, end) ==
  IF start >= Len(list) THEN <<>>
  ELSE SubSeq(list, start + 1, IF end <= Len(list) THEN end ELSE Len(list))

\* the posts a user_id filter (or none) lets through
ByAuthor(db, author) ==
  {i \in PostIds(db) : author = "none" \/ db.posts[i].user_id = author}

\* a row of post_stats, and the same row put together from the base tables
StatsRow(db, i) ==
  [post_id |-> i, likes_count |-> Cardinality(db.posts[i].likedBy),
   comments_count |-> 0]

RowsOf(db, ids) == [k \in 1..Len(ids) |-> StatsRow(db, ids[k])]

\* post_stats, ordered, filtered, windowed: an error when the view is missing
ViewRange(db, author, from, to) ==
  IF db.view
    THEN [error |-> FALSE, data |-> RowsOf(db, Range(SortDesc(ByAuthor(db, author)), from, to))]
    ELSE [error |-> TRUE, data |-> <<>>]

\* (variant for C19: the fallback query failing as well)
PostsRange_Unreadable(db, author, from, to) == [error |-> TRUE, data |-> <<>>]

\* posts, ordered, filtered, windowed, with the counts of likes and comments
\* computed from their tables
PostsRange(db, author, from, to) ==
  [error |-> FALSE, data |-> RowsOf(db, Range(SortDesc(ByAuthor(db, author)), from, to))]

\* select("post_id", { count: "exact", head: true }) on post_stats
ViewCount(db, author) ==
  IF db.view THEN Cardinality(ByAuthor(db, author)) ELSE 0 - 1

KnownUsers == {"me", "you"}

FeedItem(db, rq, row) ==
  [id |-> row.post_id, likes_count |-> row.likes_count,
   comments_count |-> row.comments_count,
   isLiked |-> "undefined",
   isBookmarked |-> rq.auth /\ row.post_id \in db.bookmarks]

FeedOk(db, rq, rows, hasMore) ==
  [status |-> 200, posts |-> [k \in 1..Len(rows) |-> FeedItem(db, rq, rows[k])],
   hasMore |-> hasMore, page |-> rq.page]

FeedError(status) == [status |-> status, posts |-> <<>>, hasMore |-> FALSE, page |-> 0]

\* the hashtag branch of GET: ids from post_hashtags, sliced, then the posts
\* of the slice ordered by created_at
FeedByHashtag(db, rq) ==
  LET offset == (rq.page - 1) * rq.limit
      allPostIds == db.links
      totalCount == Len(allPostIds)
      pagedPostIds == Slice(allPostIds, offset, offset + rq.limit)
      ordered == SortDesc({pagedPostIds[k] : k \in 1..Len(pagedPostIds)})
  IN IF rq.hashtag # "t" THEN FeedOk(db, rq, <<>>, FALSE)
     ELSE IF totalCount = 0 THEN FeedOk(db, rq, <<>>, FALSE)
     ELSE IF pagedPostIds = <<>>
       THEN FeedOk(db, rq, <<>>, offset + rq.limit < totalCount)
     ELSE FeedOk(db, rq, RowsOf(db, ordered), offset + rq.limit < totalCount)

\* the branch without hashtag: the view, or the posts table when the view
\* query fails; hasMore from a count on the view
FeedByView(db, rq) ==
  LET offset == (rq.page - 1) * rq.limit
      viewResult == ViewRange(db, rq.userId, offset, offset + rq.limit - 1)
      postsResult == PostsRange(db, rq.userId, offset, offset + rq.limit - 1)
      count == ViewCount(db, rq.userId)
  IN IF viewResult.error /\ postsResult.error THEN FeedError(500)
     ELSE LET postsData == IF viewResult.error THEN postsResult.data
                                              ELSE viewResult.data
          IN IF postsData = <<>> THEN FeedOk(db, rq, <<>>, FALSE)
             ELSE FeedOk(db, rq, postsData,
                         IF count > 0 THEN offset + rq.limit < count ELSE FALSE)

\* GET /api/posts
FeedGET(db, rq) ==
  IF rq.userId # "none" /\ rq.userId \notin KnownUsers THEN FeedError(404)
  ELSE IF rq.hashtag # "none" THEN FeedByHashtag(db, rq)
  ELSE FeedByView(db, rq)

\* post_stats .eq("post_id", id).single(): an error when the view is missing
\* or has no such row
ViewSingle(db, id) ==
  IF db.view /\ id \in PostIds(db)
    THEN [error |-> FALSE, data |-> <<StatsRow(db, id)>>]
    ELSE [error |-> TRUE, data |-> <<>>]

\* posts .eq("id", id).single(), with the counts computed from their tables
PostsSingle(db, id) ==
  IF id \in PostIds(db)
    THEN [error |-> FALSE, data |-> <<StatsRow(db, id)>>]
    ELSE [error |-> TRUE, data |-> <<>>]

\* GET /api/posts/{id}: the view row, or the posts row when the view query
\* fails
FeedDetailGET(db, rq) ==
  LET viewResult == ViewSingle(db, rq.postId)
      postsResult == PostsSingle(db, rq.postId)
  IN IF viewResult.error /\ postsResult.error THEN FeedError(404)
     ELSE LET row == IF viewResult.error THEN postsResult.data[1]
                                         ELSE viewResult.data[1]
          IN [status |-> 200,
              posts |-> <<[FeedItem(db, rq, row) EXCEPT
                             !.isLiked = IF rq.auth /\ "me" \in db.posts[rq.postId].likedBy
                                           THEN "true" ELSE "false"]>>,
              hasMore |-> FALSE, page |-> 0]

NoFeedDb == [posts |-> <<>>, links |-> <<>>, bookmarks |-> {}, view |-> TRUE]
NoFeedReq == [kind |-> "none", auth |-> FALSE, page |-> 1, limit |-> 1,
              userId |-> "none", hashtag |-> "none", postId |-> 0]
NoFeedResp == FeedError(0)

\* the route handles the request
FeedHandle ==
  /\ feedReq.kind = "feed" /\ feedResp = NoFeedResp
  /\ feedResp' = FeedGET(feedDb, feedReq)
  /\ UNCHANGED <<feedDb, feedReq, toggleVars, mentionVars, hashtagVars, restVars>>

FeedDetailHandle ==
  /\ feedReq.kind = "detail" /\ feedResp = NoFeedResp
  /\ feedResp' = FeedDetailGET(feedDb, feedReq)
  /\ UNCHANGED <<feedDb, feedReq, toggleVars, mentionVars, hashtagVars, restVars>>

InitFeedIdle ==
  /\ feedDb = NoFeedDb
  /\ feedReq = NoFeedReq
  /\ feedResp = NoFeedResp

\* sequences without repetition over subsets of S
Arrangements(S) ==
  {q \in UNION {[1..k -> S] : k \in 0..Cardinality(S)} :
     \A i, j \in 1..Len(q) : q[i] = q[j] => i = j}

PostTables(authors, likers) ==
  UNION {[1..n -> [user_id : authors, likedBy : likers]] : n \in 0..MaxPosts}

FeedPages == 1..(MaxPosts + 1)
FeedLimits == 1..MaxPosts

FeedRequests(auths, userIds, hashtags_) ==
  [kind : {"feed"}, auth : auths, page : FeedPages, limit : FeedLimits,
   userId : userIds, hashtag : hashtags_, postId : {0}]

DetailRequests(auths) ==
  [kind : {"detail"}, auth : auths, page : {1}, limit : {1},
   userId : {"none"}, hashtag : {"none"}, postId : 1..(MaxPosts + 1)]

\* the tables and the request, in three families: posts of several authors
\* read page by page; posts linked to a tag; posts the viewer has liked or
\* bookmarked
InitFeed ==
  /\ feedResp = NoFeedResp
  /\ \/ /\ feedDb \in [posts : PostTables(KnownUsers, {{}, {"you"}}),
                       links : {<<>>}, bookmarks : {{}}, view : BOOLEAN]
        /\ feedReq \in FeedRequests({FALSE}, {"none", "me", "ghost"}, {"none"})
                         \cup DetailRequests({FALSE})
     \/ /\ \E tbl \in PostTables({"me"}, {{}, {"you"}}) :
             feedDb \in [posts : {tbl}, links : Arrangements(1..Len(tbl)),
                         bookmarks : {{}}, view : BOOLEAN]
        /\ feedReq \in FeedRequests({FALSE}, {"none"}, {"t", "x"})
     \/ /\ \E tbl \in PostTables({"me"}, {{}, {"me"}}) :
             feedDb \in [posts : {tbl}, links : {<<>>},
                         bookmarks : SUBSET (1..Len(tbl)), view : BOOLEAN]
        /\ feedReq \in FeedRequests(BOOLEAN, {"none"}, {"none"})
                         \cup DetailRequests(BOOLEAN)

NextFeed == FeedHandle \/ FeedDetailHandle

\* ------------------------------------------------- owner-only routes
\* Post p was created by OwnerOf(p); its image object is uploads/<p>.  The
\* comment with id c is the comment on post c, written by the other user.
StorePosts == 1..MaxStorePosts
OwnerOf(p) == IF p % 2 = 1 THEN "me" ELSE "you"
OtherUser(u) == IF u = "me" THEN "you" ELSE "me"
Callers == Users \cup {"anon"}

\* the rows that hang on post p when it has them all: a like and a bookmark
\* of the other user, a hashtag link, a mention in the caption, a comment
\* and a mention in that comment
LikeRow(p) == [post_id |-> p, user_id |-> OtherUser(OwnerOf(p))]
CommentRow(p) == [id |-> p, post_id |-> p, user_id |-> OtherUser(OwnerOf(p))]
PostMention(p) == [post_id |-> p, comment_id |-> 0]
CommentMention(c) == [post_id |-> 0, comment_id |-> c]
LinkRow(p) == [post_id |-> p, tag |-> "t"]

SeedStore(full) ==
  [posts |-> StorePosts, images |-> StorePosts, deleted |-> {},
   likes |-> {LikeRow(p) : p \in full},
   bookmarks |-> {LikeRow(p) : p \in full},
   comments |-> {CommentRow(p) : p \in full},
   mentions |-> {PostMention(p) : p \in full} \cup {CommentMention(p) : p \in full},
   links |-> {LinkRow(p) : p \in full}]

\* (variant for C21: mentions without ON DELETE CASCADE)
CascadePost_KeepMentions(st, p) ==
  [st EXCEPT !.posts = @ \ {p}, !.deleted = @ \cup {p},
             !.likes = {r \in @ : r.post_id # p},
             !.bookmarks = {r \in @ : r.post_id # p},
             !.links = {r \in @ : r.post_id # p},
             !.comments = {r \in @ : r.post_id # p}]

\* DELETE FROM posts WHERE id = p, with the ON DELETE CASCADE of likes,
\* comments, bookmarks, post_hashtags and mentions (of the post, and of the
\* comments that go with it)
CascadePost(st, p) ==
  LET gone == {r.id : r \in {c \in st.comments : c.post_id = p}} IN
  [st EXCEPT !.posts = @ \ {p}, !.deleted = @ \cup {p},
             !.likes = {r \in @ : r.post_id # p},
             !.bookmarks = {r \in @ : r.post_id # p},
             !.links = {r \in @ : r.post_id # p},
             !.comments = {r \in @ : r.post_id # p},
             !.mentions = {r \in @ : r.post_id # p /\ r.comment_id \notin gone}]

\* DELETE FROM comments WHERE id = c
CascadeComment(st, c) ==
  [st EXCEPT !.comments = {r \in @ : r.id # c},
             !.mentions = {r \in @ : r.comment_id # c}]

\* (variant for C22: no ownership test)
IsOwner_Anyone(rowUser, caller) == TRUE

\* postData.user_id !== currentUser.id, commentData.user_id !== userData.id
IsOwner(rowUser, caller) == rowUser = caller

Answer(op, caller, target, status, rows) ==
  [n |-> srvLast.n + 1, op |-> op, caller |-> caller, target |-> target,
   status |-> status, rows |-> rows]

\* A behaviour handles one profile edit, or up to MaxOps requests about
\* posts and comments.
PostsTurn == srvLast.n < MaxOps /\ srvLast.op # "put"

\* DELETE /api/posts/{id}.  removed: storage.remove took the object away
\* (it may also fail or throw, which the handler ignores); deleteOk: the
\* delete statement succeeded.
PostDELETE(caller, postId, removed, deleteOk) ==
  /\ PostsTurn
  /\ UNCHANGED <<accounts, notOwner>>
  /\ IF caller = "anon"
       THEN /\ srvLast' = Answer("deletePost", caller, postId, 401, {})
            /\ UNCHANGED store
     ELSE IF postId \notin store.posts
       THEN /\ srvLast' = Answer("deletePost", caller, postId, 404, {})
            /\ UNCHANGED store
     ELSE IF ~IsOwner(OwnerOf(postId), caller)
       THEN /\ srvLast' = Answer("deletePost", caller, postId, 403, {})
            /\ UNCHANGED store
     ELSE LET afterRemove ==
                IF removed THEN [store EXCEPT !.images = @ \ {postId}] ELSE store
          IN IF deleteOk
               THEN /\ store' = CascadePost(afterRemove, postId)
                    /\ srvLast' = Answer("deletePost", caller, postId, 200, {})
               ELSE /\ store' = afterRemove
                    /\ srvLast' = Answer("deletePost", caller, postId, 500, {})

\* DELETE /api/comments/{id}
CommentDELETE(caller, commentId, deleteOk) ==
  /\ PostsTurn
  /\ UNCHANGED <<accounts, notOwner>>
  /\ IF caller = "anon"
       THEN /\ srvLast' = Answer("deleteComment", caller, commentId, 401, {})
            /\ UNCHANGED store
     ELSE IF \A r \in store.comments : r.id # commentId
       THEN /\ srvLast' = Answer("deleteComment", caller, commentId, 404, {})
            /\ UNCHANGED store
     ELSE LET commentData == CHOOSE r \in store.comments : r.id = commentId IN
          IF ~IsOwner(commentData.user_id, caller)
            THEN /\ srvLast' = Answer("deleteComment", caller, commentId, 403, {})
                 /\ UNCHANGED store
          ELSE IF deleteOk
            THEN /\ store' = CascadeComment(store, commentId)
                 /\ srvLast' = Answer("deleteComment", caller, commentId, 200, {})
          ELSE /\ srvLast' = Answer("deleteComment", caller, commentId, 500, {})
               /\ UNCHANGED store

\* what a feed fetch (target 0) or the detail fetch of one post hands out of
\* the rows that hang on posts: every query goes through the ids of posts
\* rows found first
RowsOfPosts(st, ps) ==
  LET cs == {c \in st.comments : c.post_id \in ps} IN
  [likes |-> {r \in st.likes : r.post_id \in ps},
   bookmarks |-> {r \in st.bookmarks : r.post_id \in ps},
   links |-> {r \in st.links : r.post_id \in ps},
   comments |-> cs,
   mentions |-> {r \in st.mentions :
                   r.post_id \in ps \/ r.comment_id \in {c.id : c \in cs}}]

NoRowsOut == RowsOfPosts(SeedStore({}), {})

StoreFetch(postId) ==
  /\ PostsTurn
  /\ UNCHANGED <<store, accounts, notOwner>>
  /\ IF postId = 0
       THEN srvLast' = [Answer("fetch", "anon", 0, 200, {}) EXCEPT
                          !.rows = RowsOfPosts(store, store.posts)]
     ELSE IF postId \in store.posts
       THEN srvLast' = [Answer("fetch", "anon", postId, 200, {}) EXCEPT
                          !.rows = RowsOfPosts(store, {postId})]
     ELSE srvLast' = [Answer("fetch", "anon", postId, 404, {}) EXCEPT
                          !.rows = NoRowsOut]

\* ---------------------------------------------- PUT /api/users/{userId}
MaxNameLength == 50
MaxBioLength == 150
MAX_FILE_SIZE == 5 * 1024 * 1024

\* the form: name as its length (0: not sent or empty) and whether it is
\* blanks only; image as not sent or [isImage, size]; bio as not sent (-1) or
\* the length of the trimmed text; website as not sent, or trimmed to
\* nothing, or something new URL() accepts, or something it rejects
NoImage == [sent |-> FALSE, isImage |-> FALSE, size |-> 0]
ImageFiles ==
  {NoImage} \cup [sent : {TRUE}, isImage : BOOLEAN,
                  size : {MAX_FILE_SIZE, MAX_FILE_SIZE + 1}]
ProfileForms ==
  [nameLen : {0, 1, MaxNameLength, MaxNameLength + 1},
   nameBlank : BOOLEAN,
   image : ImageFiles,
   bio : {0 - 1, 0, MaxBioLength, MaxBioLength + 1},
   website : {"null", "empty", "ok", "bad"}]

SeedAccounts ==
  [users |-> [u \in Users |-> [name |-> "old", bio |-> "old",
                               website |-> "old", image |-> "old"]],
   clerk |-> [u \in Users |-> [name |-> "old", image |-> "old"]],
   avatars |-> 0]

\* uploadOk, clerkOk, updateOk: the storage upload, the identity-provider
\* update and the users update succeeded
UsersPUT(caller, target, form, uploadOk, clerkOk, updateOk) ==
  LET name == form.nameLen > 0
      bad(status) == /\ srvLast' = Answer("put", caller, target, status, {})
                     /\ UNCHANGED accounts
  IN
  /\ srvLast.op = "none"
  /\ UNCHANGED <<store, notOwner>>
  /\ IF caller = "anon" THEN bad(401)
     ELSE IF caller # target THEN bad(403)
     ELSE IF name /\ form.nameBlank THEN bad(400)
     ELSE IF name /\ form.nameLen > MaxNameLength THEN bad(400)
     ELSE IF form.image.sent /\ ~form.image.isImage THEN bad(400)
     ELSE IF form.image.sent /\ form.image.size > MAX_FILE_SIZE THEN bad(400)
     ELSE IF form.image.sent /\ ~uploadOk THEN bad(500)
     ELSE
       LET imageUrl == form.image.sent
           uploaded == IF form.image.sent
                         THEN [accounts EXCEPT !.avatars = @ + 1] ELSE accounts
           inClerk ==
             IF clerkOk
               THEN [uploaded EXCEPT
                       !.clerk[caller].name = IF name THEN "new" ELSE @,
                       !.clerk[caller].image = IF imageUrl THEN "new" ELSE @]
               ELSE uploaded
           bioValue == IF form.bio > 0 THEN "new" ELSE "null"
           websiteValue == IF form.website = "ok" THEN "new" ELSE "null"
           updated ==
             [inClerk EXCEPT
                !.users[caller].name = IF name THEN "new" ELSE @,
                !.users[caller].image = IF imageUrl THEN "new" ELSE @,
                !.users[caller].bio = IF form.bio >= 0 THEN bioValue ELSE @,
                !.users[caller].website =
                   IF form.website # "null" THEN websiteValue ELSE @]
           touched == name \/ imageUrl \/ form.bio >= 0 \/ form.website # "null"
       IN IF form.bio > MaxBioLength
            THEN /\ accounts' = inClerk
                 /\ srvLast' = Answer("put", caller, target, 400, {})
          ELSE IF form.website = "bad"
            THEN /\ accounts' = inClerk
                 /\ srvLast' = Answer("put", caller, target, 400, {})
          ELSE IF touched /\ ~updateOk
            THEN /\ accounts' = inClerk
                 /\ srvLast' = Answer("put", caller, target, 500, {})
          ELSE /\ accounts' = IF touched THEN updated ELSE inClerk
               /\ srvLast' = Answer("put", caller, target, 200, {})

NoAnswer == [n |-> 0, op |-> "none", caller |-> "anon", target |-> 0,
             status |-> 0, rows |-> {}]

InitOwnerIdle ==
  /\ store = SeedStore({})
  /\ accounts = SeedAccounts
  /\ srvLast = NoAnswer

InitOwner ==
  /\ store \in {SeedStore(full) : full \in SUBSET StorePosts}
  /\ accounts = SeedAccounts
  /\ srvLast = NoAnswer

NextOwner ==
  \/ \E caller \in Callers, postId \in StorePosts, removed, deleteOk \in BOOLEAN :
       PostDELETE(caller, postId, removed, deleteOk)
  \/ \E caller \in Callers, commentId \in StorePosts, deleteOk \in BOOLEAN :
       CommentDELETE(caller, commentId, deleteOk)
  \/ \E postId \in {0} \cup StorePosts : StoreFetch(postId)
  \/ \E caller \in Callers, form \in ProfileForms,
        uploadOk, clerkOk, updateOk \in BOOLEAN :
       UsersPUT(caller, "me", form, uploadOk, clerkOk, updateOk)

\* ------------------------------------------------------ HashtagPostGrid
MAX_RETRIES == 2
RETRY_DELAY == 1000

FetchIds == 1..MaxFetches

\* what an attempt ends with: a page of posts, the 10 s abort, a network
\* error whose message the handler recognises, any other failure (an HTTP
\* error, a network error with another message)
Outcomes == {"ok", "timeout", "network", "other"}

NoFetch == [stage |-> "none", retryCount |-> 0, attempts |-> 0,
            delays |-> <<>>, failed |-> FALSE]

SeedGrid == [loading |-> FALSE, error |-> FALSE, hasMore |-> FALSE, page |-> 1]

\* (variant for C23: one retry more)
CanRetry_OneMore(retryCount) == retryCount <= MAX_RETRIES

\* retryCount < MAX_RETRIES
CanRetry(retryCount) == retryCount < MAX_RETRIES

\* fetchPosts(targetPage, hashtag) called by the effect (a new hashtag) or by
\* a button:
\* setLoading(true), setError(null), the request goes out
GridFetchPosts(f) ==
  /\ fetches[f].stage = "none"
  /\ \A g \in FetchIds : g < f => fetches[g].stage # "none"
  /\ fetches' = [fetches EXCEPT ![f] = [NoFetch EXCEPT !.stage = "inflight",
                                                       !.attempts = 1]]
  /\ grid' = [grid EXCEPT !.loading = TRUE, !.error = FALSE]
  /\ UNCHANGED notGrid

\* the attempt ends.  A failure that is retried waits in the catch block; on
\* every other path the finally block runs in the same step.
GridSettle(f, outcome, more) ==
  /\ fetches[f].stage = "inflight"
  /\ UNCHANGED notGrid
  /\ IF outcome = "ok"
       THEN /\ fetches' = [fetches EXCEPT ![f].stage = "done"]
            /\ grid' = [grid EXCEPT !.hasMore = more,
                                    !.page = IF more THEN 2 ELSE 1,
                                    !.loading = FALSE]
     ELSE IF outcome \in {"timeout", "network"} /\ CanRetry(fetches[f].retryCount)
       THEN /\ fetches' = [fetches EXCEPT
                             ![f].stage = "delay",
                             ![f].delays = Append(@, RETRY_DELAY * (fetches[f].retryCount + 1))]
            /\ UNCHANGED grid
     ELSE /\ fetches' = [fetches EXCEPT ![f].stage = "done", ![f].failed = TRUE]
          /\ grid' = [grid EXCEPT !.error = TRUE, !.loading = FALSE]

\* the delay is over: return fetchPosts(..., retryCount + 1).  The inner call
\* runs up to its fetch (setLoading(true), setError(null)); the outer call
\* returns its promise without awaiting it, so its finally block runs at
\* once (setLoading(false)).
GridRetry(f) ==
  /\ fetches[f].stage = "delay"
  /\ fetches' = [fetches EXCEPT ![f].stage = "inflight",
                                ![f].retryCount = @ + 1,
                                ![f].attempts = @ + 1]
  /\ grid' = [grid EXCEPT !.loading = FALSE, !.error = FALSE]
  /\ UNCHANGED notGrid

InitGrid ==
  /\ grid = SeedGrid
  /\ fetches = [f \in FetchIds |-> NoFetch]

NextGrid ==
  \/ \E f \in FetchIds : GridFetchPosts(f)
  \/ \E f \in FetchIds, outcome \in Outcomes, more \in BOOLEAN :
       GridSettle(f, outcome, more)
  \/ \E f \in FetchIds : GridRetry(f)

\* ------------------------------------------------------ suggestion boxes
\* The effect on [query] of SearchPage and the effect on [mentionQuery] of
\* CreatePostModal and CommentForm.  box.shown names the query whose results
\* are in the suggestion state ("" when the list is empty).
Queries == {"", "a", "ab"}
BoxKinds == {"search", "mention"}

SeedBox(kind) ==
  [kind |-> kind, query |-> "", shown |-> "", timer |-> FALSE, edits |-> 0,
   loading |-> FALSE, error |-> FALSE]

\* controller.abort() in the cleanup of the effect
Abort(ls) == {[l EXCEPT !.aborted = TRUE] : l \in ls}

\* the user edits the query: the cleanup of the previous effect run aborts
\* its request and clears its timer, the new run clears the list for an
\* empty query and arms the debounce timer otherwise
BoxEdit(q) ==
  /\ q # box.query
  /\ box.edits < MaxEdits
  /\ lookups' = Abort(lookups)
  /\ box' = [box EXCEPT !.query = q,
                        !.edits = @ + 1,
                        !.timer = (q # ""),
                        !.shown = IF q = "" THEN "" ELSE @]
  /\ UNCHANGED notSuggest

\* the debounce timer fires: fetchSuggestions sends the request
BoxTimer ==
  /\ box.timer
  /\ lookups' = lookups \cup {[q |-> box.query, aborted |-> FALSE]}
  /\ box' = [box EXCEPT !.timer = FALSE,
                        !.loading = IF box.kind = "search" THEN TRUE ELSE @,
                        !.error = IF box.kind = "search" THEN FALSE ELSE @]
  /\ UNCHANGED notSuggest

\* a request settles: with AbortError when it was aborted, with a response
\* that is ok, or with a failure (response not ok, network error)
BoxSettle(l, ok) ==
  /\ l \in lookups
  /\ lookups' = lookups \ {l}
  /\ LET finally == [box EXCEPT !.loading = IF box.kind = "search" THEN FALSE ELSE @]
     IN IF l.aborted THEN box' = finally
        ELSE IF ok THEN box' = [finally EXCEPT !.shown = l.q]
        ELSE box' = [finally EXCEPT !.error = IF box.kind = "search" THEN TRUE ELSE @]
  /\ UNCHANGED notSuggest

InitBoxIdle ==
  /\ box = SeedBox("search")
  /\ lookups = {}

InitBox ==
  /\ box \in {SeedBox(k) : k \in BoxKinds}
  /\ lookups = {}

NextBox ==
  \/ \E q \in Queries : BoxEdit(q)
  \/ BoxTimer
  \/ \E l \in lookups, ok \in BOOLEAN : BoxSettle(l, ok)

\* ------------------------------------------------- length of the caption
MAX_CAPTION_LENGTH == 2200
\* String.length of an emoji of the picker (a surrogate pair)
EmojiLength == 2

\* lengths the user can type the caption to: the textarea has
\* maxLength={MAX_CAPTION_LENGTH}
TypedLengths == {0, 1, MAX_CAPTION_LENGTH - 1, MAX_CAPTION_LENGTH}

\* lengths of the caption field in a request somebody writes by hand
SentLengths == {0, MAX_CAPTION_LENGTH, MAX_CAPTION_LENGTH + 1}

SeedComposer == [len |-> 0, emojis |-> 0]

\* handleCaptionChange: the user types or deletes
ComposerType(n) ==
  /\ composer.emojis = 0
  /\ n # composer.len
  /\ composer' = [composer EXCEPT !.len = n]
  /\ UNCHANGED <<capRows, capLast, notCaption>>

\* handleEmojiClick: the emoji is spliced into the caption state
ComposerEmoji ==
  /\ composer.emojis < MaxCreates
  /\ composer' = [composer EXCEPT !.len = @ + EmojiLength, !.emojis = @ + 1]
  /\ UNCHANGED <<capRows, capLast, notCaption>>

\* POST /api/posts as far as the caption goes: session, image checks, insert
\* of caption || null
CaptionPOST(auth, image, len) ==
  IF ~auth THEN [status |-> 401, rows |-> capRows]
  ELSE IF ~image.sent THEN [status |-> 400, rows |-> capRows]
  ELSE IF ~image.isImage THEN [status |-> 400, rows |-> capRows]
  ELSE IF image.size > MAX_FILE_SIZE THEN [status |-> 400, rows |-> capRows]
  ELSE [status |-> 201,
        rows |-> Append(capRows, IF len = 0 THEN 0 - 1 ELSE len)]

\* handleSubmit of the modal: a picked image and the caption as it is
ComposerSubmit ==
  /\ Len(capRows) < MaxCreates
  /\ LET image == [sent |-> TRUE, isImage |-> TRUE, size |-> MAX_FILE_SIZE]
         r == CaptionPOST(TRUE, image, composer.len)
     IN capRows' = r.rows /\ capLast' = r.status
  /\ composer' = SeedComposer
  /\ UNCHANGED notCaption

\* a create request from any other client
DirectCreate(auth, image, len) ==
  /\ Len(capRows) < MaxCreates
  /\ LET r == CaptionPOST(auth, image, len)
     IN capRows' = r.rows /\ capLast' = r.status
  /\ UNCHANGED <<composer, notCaption>>

InitCaption ==
  /\ composer = SeedComposer
  /\ capRows = <<>>
  /\ capLast = 0

NextCaption ==
  \/ \E n \in TypedLengths : ComposerType(n)
  \/ ComposerEmoji
  \/ ComposerSubmit
  \/ \E auth \in BOOLEAN, image \in ImageFiles, len \in SentLengths :
       DirectCreate(auth, image, len)

\* ------------------------------------------ PostFeed (infinite scroll)
\* The home feed asks GET /api/posts for pages of ScrollLimit posts, newest
\* first, and the route cuts each page out of the table as it is when the
\* request is handled.  Post ids grow with created_at.

\* `limit=10` of the request PostFeed sends
ScrollLimit == 10

\* one post more than a page holds, so that page 1 answers hasMore
SeedTimeline ==
  [alive |-> 1..(ScrollLimit + 1), next |-> ScrollLimit + 2, changes |-> 0]

FirstLoad == [id |-> 1, targetPage |-> 1, isInitial |-> TRUE, status |-> 0,
              posts |-> <<>>, hasMore |-> FALSE]

\* fetchPosts up to its await
ScrollFetchPosts(targetPage, isInitial) ==
  /\ loads.sent < MaxLoads
  /\ scroll' = [scroll EXCEPT !.loading = IF isInitial THEN TRUE ELSE @,
                              !.isLoadingMore = IF isInitial THEN @ ELSE TRUE,
                              !.error = FALSE]
  /\ loads' = [sent |-> loads.sent + 1,
               open |-> loads.open \cup
                 {[FirstLoad EXCEPT !.id = loads.sent + 1,
                                    !.targetPage = targetPage,
                                    !.isInitial = isInitial]}]

\* the sentinel comes into view: the observer callback, then loadMorePosts
ScrollLoadMore ==
  /\ scroll.hasMore /\ ~scroll.isLoadingMore /\ ~scroll.loading
  /\ ScrollFetchPosts(scroll.page + 1, FALSE)
  /\ UNCHANGED <<timeline, notScroll>>

CreateRow(t) ==
  [alive |-> t.alive \cup {t.next}, next |-> t.next + 1, changes |-> t.changes + 1]

\* the viewer publishes a post in this tab: CreatePostModal dispatches
\* postCreated and the feed reloads page 1
PostCreated ==
  /\ timeline.changes < MaxChanges
  /\ timeline' = CreateRow(timeline)
  /\ ScrollFetchPosts(1, TRUE)
  /\ UNCHANGED notScroll

\* somebody else publishes a post
OtherCreate ==
  /\ timeline.changes < MaxChanges
  /\ timeline' = CreateRow(timeline)
  /\ UNCHANGED <<scroll, loads, notScroll>>

\* DELETE /api/posts/{id} by the owner of a post
ServerDelete(postId) ==
  /\ timeline.changes < MaxChanges
  /\ postId \in timeline.alive
  /\ timeline' = [timeline EXCEPT !.alive = @ \ {postId}, !.changes = @ + 1]
  /\ UNCHANGED <<scroll, loads, notScroll>>

\* GET /api/posts?page=..&limit=10 without a filter: the ids of the page
\* and hasMore
TimelinePage(t, pageNo) ==
  LET offset == (pageNo - 1) * ScrollLimit
      rows == Range(SortDesc(t.alive), offset, offset + ScrollLimit - 1)
      count == Cardinality(t.alive)
  IN [posts |-> rows,
      hasMore |-> IF rows = <<>> THEN FALSE
                  ELSE count # 0 /\ offset + ScrollLimit < count]

\* the route handles a request of the feed
PostsGET(r, ok) ==
  /\ r \in loads.open /\ r.status = 0
  /\ LET answer == TimelinePage(timeline, r.targetPage)
     IN loads' = [loads EXCEPT !.open = (@ \ {r}) \cup
          {IF ok THEN [r EXCEPT !.status = 200, !.posts = answer.posts,
                                !.hasMore = answer.hasMore]
           ELSE [r EXCEPT !.status = 500]}]
  /\ UNCHANGED <<timeline, scroll, notScroll>>

\* fetchPosts after its await: try, catch and finally
ScrollResume(r) ==
  /\ r \in loads.open /\ r.status # 0
  /\ scroll' =
       [(IF r.status = 200
         THEN [scroll EXCEPT !.posts = IF r.isInitial THEN r.posts
                                       ELSE @ \o r.posts,
                             !.hasMore = r.hasMore,
                             !.page = r.targetPage]
         ELSE [scroll EXCEPT !.error = TRUE])
        EXCEPT !.loading = FALSE, !.isLoadingMore = FALSE]
  /\ loads' = [loads EXCEPT !.open = @ \ {r}]
  /\ UNCHANGED <<timeline, notScroll>>

\* PostFeed has mounted: the effect has called fetchPosts(1, true)
InitScroll ==
  /\ timeline = SeedTimeline
  /\ scroll = [posts |-> <<>>, loading |-> TRUE, isLoadingMore |-> FALSE,
               hasMore |-> FALSE, page |-> 1, error |-> FALSE]
  /\ loads = [sent |-> 1, open |-> {FirstLoad}]

NextScroll ==
  \/ ScrollLoadMore
  \/ PostCreated
  \/ OtherCreate
  \/ \E postId \in timeline.alive : ServerDelete(postId)
  \/ \E r \in loads.open, ok \in BOOLEAN : PostsGET(r, ok)
  \/ \E r \in loads.open : ScrollResume(r)

InitRestIdle ==
  InitOwnerIdle /\ InitGrid /\ InitBoxIdle /\ InitCaption /\ InitScroll

\* ---------------------------------------------------- the specifications
\* nobody is using a toggle
InitToggleIdle ==
  InitToggle /\ page = "cardLike" /\ ~isSignedIn /\ likes = NoRows

Init ==
  InitToggle /\ InitMentionIdle /\ InitHashtagIdle /\ InitFeedIdle /\ InitRestIdle

Spec == Init /\ [][Next]_vars

\* Responses arrive, continuations run and components render: every request
\* that was sent is answered (by the route, by a 500 or by a network error),
\* every handler suspended at an await is resumed once its response is
\* there, every state change is rendered.
Arrive == \E t \in tasks : Serve(t) \/ ServeFault(t) \/ NetError(t)

Resume ==
  \E t \in tasks :
    \/ CardLikeSettle(t) \/ CardCheckSettle(t) \/ CardBookmarkSettle(t)
    \/ FollowSettle(t) \/ FollowRefreshed(t) \/ ProfileFetchSettle(t)
    \/ ModalLikeSettle(t) \/ ModalLikeRefreshed(t) \/ ModalFetchSettle(t)
    \/ ModalBookmarkSettle(t)

Rerender == CardRender \/ ProfileRender \/ ModalRender

\* the viewer is signed in, the tables start empty, and nothing but the
\* toggle buttons is operated
InitLive ==
  Init /\ isSignedIn /\ likes = NoRows /\ bookmarks = NoRows /\ follows = NoFollows

NextLive ==
  \/ Arrive
  \/ Resume
  \/ Rerender
  \/ CardClickLike
  \/ CardClickBookmark
  \/ ProfileClickFollow
  \/ ModalClickLike
  \/ ModalClickBookmark

SpecLive ==
  InitLive /\ [][NextLive]_vars
    /\ WF_vars(Arrive) /\ WF_vars(Resume) /\ WF_vars(Rerender)

InitHashtagAlone ==
  InitToggleIdle /\ InitMentionIdle /\ InitHashtag /\ InitFeedIdle /\ InitRestIdle

SpecHashtag == InitHashtagAlone /\ [][NextHashtag]_vars

InitFeedAlone ==
  InitToggleIdle /\ InitMentionIdle /\ InitHashtagIdle /\ InitFeed /\ InitRestIdle

SpecFeed == InitFeedAlone /\ [][NextFeed]_vars

\* The creation routes on their own: a request has arrived, nobody is
\* using a toggle.
InitMention ==
  /\ InitToggleIdle /\ InitHashtagIdle /\ InitFeedIdle /\ InitRestIdle
  /\ comments = <<>>
  /\ posts = SeedPosts
  /\ mentions = <<>>
  /\ req \in PostRequests \cup CommentRequests

NextMention == PostsPOST \/ CommentsPOST

SpecMention == InitMention /\ [][NextMention]_vars

InitBaseIdle ==
  InitToggleIdle /\ InitMentionIdle /\ InitHashtagIdle /\ InitFeedIdle

InitOwnerAlone ==
  InitBaseIdle /\ InitOwner /\ InitGrid /\ InitBoxIdle /\ InitCaption /\ InitScroll

InitGridAlone == InitBaseIdle /\ InitRestIdle

InitBoxAlone ==
  InitBaseIdle /\ InitOwnerIdle /\ InitGrid /\ InitBox /\ InitCaption /\ InitScroll

InitScrollAlone == InitBaseIdle /\ InitRestIdle

SpecScroll == InitScrollAlone /\ [][NextScroll]_vars

InitCaptionAlone == InitBaseIdle /\ InitRestIdle

SpecCaption == InitCaptionAlone /\ [][NextCaption]_vars

SpecBox == InitBoxAlone /\ [][NextBox]_vars

SpecGrid == InitGridAlone /\ [][NextGrid]_vars

SpecOwner == InitOwnerAlone /\ [][NextOwner]_vars

\* ============================================================ properties
ToggleKinds == {"cardLike", "cardBookmark", "modalLike", "modalBookmark", "follow"}

Quiet == tasks = {} /\ cardView = card /\ modalView = modal /\ profileView = profile

C2_RollbackOnFailure ==
  /\ (last.act = "CardLikeSettle" /\ ~Ok(last.t.status)) =>
       /\ last.alert
       /\ card.isLiked = last.t.prevOn /\ card.likesCount = last.t.prevCount
  /\ (last.act = "ModalLikeSettle" /\ ~Ok(last.t.status)) =>
       /\ last.alert
       /\ modal.isLiked = last.t.prevOn /\ modal.likesCount = last.t.prevCount
  /\ (last.act = "FollowSettle" /\ ~Ok(last.t.status)) =>
       /\ last.alert
       /\ profile.isFollowing = last.t.prevOn
       /\ profile.followersCount = last.t.prevCount

C2_Witness ==
  /\ last.act = "CardLikeSettle" /\ last.t.status = 409 /\ last.alert
  /\ card.isLiked = last.t.prevOn /\ card.likesCount = last.t.prevCount

LikeAddHandled ==
  \/ /\ last'.act \in {"Serve", "NetError"}
     /\ last'.t.kind \in {"cardLike", "modalLike"}
     /\ last'.t.method = "POST" /\ last'.t.stage = "resp"
  \/ last'.act = "ApiCall" /\ last'.t.kind = "likePOST"

C5_DuplicateLikeStep ==
  (LikeAddHandled /\ isSignedIn /\ likes[Viewer] >= 1) =>
    (likes' = likes /\ (last'.act # "NetError" => last'.t.status = 409))

C5_CountedOnce ==
  (last.act \in {"ModalFetchSettle", "ModalLikeRefreshed"} /\ Ok(last.t.status)
     /\ isSignedIn) =>
    modal.likesCount = likes["you"] + (IF modal.isLiked THEN 1 ELSE 0)

SettleActs ==
  {"CardLikeSettle", "ModalLikeSettle", "FollowSettle",
   "CardBookmarkSettle", "ModalBookmarkSettle"}

\* C6 (as stated): when a toggle's add was found by the server to target
\* an existing pair, the handler shows no error.
C6_DuplicateSilent ==
  (last.act \in SettleActs /\ last.t.dup) => ~last.alert

\* C6 (amended): a duplicate bookmark add is answered 201 and the handler
\* shows no error and displays the post bookmarked; a duplicate like or
\* follow add is answered 409 and the handler shows an error.
C6_DuplicateByKind ==
  /\ (last.act \in {"CardBookmarkSettle", "ModalBookmarkSettle"} /\ last.t.dup) =>
       (last.t.status = 201 /\ ~last.alert)
  /\ (last.act = "CardBookmarkSettle" /\ last.t.dup) => card.isBookmarked
  /\ (last.act = "ModalBookmarkSettle" /\ last.t.dup) => modal.isBookmarked
  /\ (last.act \in {"CardLikeSettle", "ModalLikeSettle", "FollowSettle"}
        /\ last.t.dup) =>
       (last.t.status = 409 /\ last.alert)

C6_Witness ==
  /\ last.act = "CardBookmarkSettle" /\ last.t.dup /\ ~last.alert
  /\ card.isBookmarked /\ bookmarks[Viewer] = 1

\* C7 (as stated): right after a bookmark click that sends a request, the
\* component's bookmarked state is the opposite of the one it displayed.
C7_OptimisticBookmark ==
  /\ (last.act = "CardClickBookmark" /\ last.t # NoTask) =>
       card.isBookmarked = ~last.t.prevOn
  /\ (last.act = "ModalClickBookmark" /\ last.t # NoTask) =>
       modal.isBookmarked = ~last.t.prevOn

\* C8: no key of the likes, bookmarks or follows table ever has two rows.
C8_UniqueRows ==
  /\ \A u \in Users : likes[u] <= 1 /\ bookmarks[u] <= 1
  /\ \A pr \in Users \X Users : follows[pr] <= 1

\* two adds for one pair were outstanding together, and the second to reach
\* the table was refused
C8_Witness ==
  /\ apiCalls = 1 /\ last.act = "ApiCall" /\ last.t.kind = "likePOST"
  /\ last.t.dup /\ likes[Viewer] = 1
  /\ \E t \in tasks : t.kind \in {"cardLike", "modalLike"} /\ t.method = "POST"
                      /\ t.stage = "resp" /\ Ok(t.status)

\* C9: the follows table never holds a row from a user to themselves; a
\* follow request of a signed-in user naming themselves is answered 400;
\* and the profile header sends no follow request on the viewer's own profile.
C9_NoSelfFollow ==
  /\ \A u \in Users : follows[<<u, u>>] = 0
  /\ (last.act = "ApiCall" /\ last.t.kind = "followPOST" /\ isSignedIn
        /\ last.t.target = Viewer) => last.t.status = 400
  /\ (page = "profile" /\ profileOf = Viewer) => InFlight("follow") = {}

C9_Witness ==
  /\ last.act = "ApiCall" /\ last.t.kind = "followPOST" /\ isSignedIn
  /\ last.t.target = Viewer /\ last.t.status = 400
  /\ follows[<<Viewer, Viewer>>] = 0

\* the text a mention row's parent holds in its table
ParentText(m) ==
  IF m.post_id # 0
    THEN (CHOOSE r \in {posts[i] : i \in 1..Len(posts)} : r.id = m.post_id).caption.text
    ELSE (CHOOSE r \in {comments[i] : i \in 1..Len(comments)} : r.id = m.comment_id).content

\* C10 (as stated): for every mention row, "@" followed by its display
\* text, lowercased, is a substring of the lowercased text its post or
\* comment holds as persisted.
C10_MentionInPersistedText ==
  \A i \in 1..Len(mentions) :
    Includes(ToLower(ParentText(mentions[i])),
             <<"@">> \o ToLower(mentions[i].display_text))

\* the dedup key of a candidate or of a row
MentionKey(m) == <<m.mentioned_user_id, ToLower(m.display_text)>>

\* C11: once a post or comment has been created, no two of its mention
\* rows have the same key (target user id, lowercased display text), and
\* every row carries the display text of the first candidate of the
\* submitted list that has the row's key.
C11_FirstPerKey ==
  req.status = 201 =>
    /\ \A i, j \in 1..Len(mentions) :
         MentionKey(mentions[i]) = MentionKey(mentions[j]) => i = j
    /\ \A i \in 1..Len(mentions) :
         LET same == {k \in 1..Len(req.mentions) :
                        MentionKey(req.mentions[k]) = MentionKey(mentions[i])}
         IN /\ same # {}
            /\ mentions[i].display_text =
                 req.mentions[CHOOSE k \in same : \A l \in same : k <= l].display_text

\* two candidates with one key but different spellings were submitted, and
\* the one row kept is the first
C11_Witness ==
  /\ req.status = 201 /\ Len(req.mentions) = 2
  /\ MentionKey(req.mentions[1]) = MentionKey(req.mentions[2])
  /\ req.mentions[1].display_text # req.mentions[2].display_text
  /\ Len(mentions) = 1
  /\ mentions[1].display_text = req.mentions[1].display_text

\* some candidate of the request occurs, with "@" and case-insensitively,
\* in the text the route validated against
SomeCandidateOccurs ==
  \E k \in 1..Len(req.mentions) :
    Includes(ToLower(IF req.route = "posts" THEN req.caption.text ELSE req.content),
             <<"@">> \o ToLower(req.mentions[k].display_text))

\* C12: every mention row has exactly one of post_id / comment_id set; the
\* rows of a created post name that post and no comment, the rows of a
\* created comment name that comment and no post, and a created record
\* with an occurring candidate does get its rows.
C12_OneParent ==
  /\ \A i \in 1..Len(mentions) :
       (mentions[i].post_id # 0) # (mentions[i].comment_id # 0)
  /\ (req.route = "posts" /\ req.status = 201) =>
       /\ \A i \in 1..Len(mentions) :
            mentions[i].post_id = posts[Len(posts)].id /\ mentions[i].comment_id = 0
       /\ SomeCandidateOccurs => mentions # <<>>
  /\ (req.route = "comments" /\ req.status = 201) =>
       /\ \A i \in 1..Len(mentions) :
            mentions[i].comment_id = comments[Len(comments)].id
              /\ mentions[i].post_id = 0
       /\ SomeCandidateOccurs => mentions # <<>>

C12_Witness ==
  /\ req.route = "posts" /\ req.status = 201 /\ Len(mentions) = 2
  /\ \A i \in 1..2 : mentions[i].post_id = 2 /\ mentions[i].comment_id = 0

\* the lowercased tokens of s: each "#" followed by a tag character opens
\* one, which runs to the last tag character in a row
Tokens(s) ==
  {ToLower(SubSeq(s, ie[1] + 1, ie[2])) :
     ie \in {x \in (1..Len(s)) \X (1..Len(s)) :
               /\ x[1] < x[2] /\ s[x[1]] = "#"
               /\ \A k \in (x[1] + 1)..x[2] : IsTagChar(s[k])
               /\ (x[2] = Len(s) \/ ~IsTagChar(s[x[2] + 1]))}}

\* C13: the array extractHashtags returns has no element twice and its
\* elements are exactly the lowercased tokens of the text ("#" and a
\* longest run of letters, digits, underscores), whatever their order and
\* repetition in the text; a null or empty text, or one without a token,
\* gives the empty array.
C13_ExtractHashtags ==
  extraction.done =>
    /\ \A i, j \in 1..Len(extraction.tags) :
         extraction.tags[i] = extraction.tags[j] => i = j
    /\ {extraction.tags[i] : i \in 1..Len(extraction.tags)} =
         (IF extraction.arg.isNull THEN {} ELSE Tokens(extraction.arg.text))
    /\ (extraction.arg.isNull \/ extraction.arg.text = <<>>) => extraction.tags = <<>>

\* "#a #b #a" gave a and b
C13_Witness ==
  /\ extraction.done
  /\ extraction.arg.text = <<"#", "a", " ", "#", "b", " ", "#", "a">>
  /\ Len(extraction.tags) = 2
  /\ {extraction.tags[1], extraction.tags[2]} = {<<"a">>, <<"b">>}

\* C14: the dictionary never holds two rows for one tag, nor post_hashtags
\* two rows for one (post, tag); and once a creation has answered, it has
\* answered 201 and each tag of its caption has its one dictionary row and
\* its one link row to the created post, however the creations interleave.
C14_HashtagsIdempotent ==
  /\ \A i \in 1..Len(hashtags) : RowCount(hashtags, hashtags[i]) = 1
  /\ \A i \in 1..Len(post_hashtags) : RowCount(post_hashtags, post_hashtags[i]) = 1
  /\ \A c \in Creators :
       creations[c].stage = "done" =>
         /\ creations[c].status = 201
         /\ \A k \in 1..Len(creations[c].tags) :
              /\ RowCount(hashtags, creations[c].tags[k]) = 1
              /\ RowCount(post_hashtags,
                          [post_id |-> creations[c].postId,
                           tag |-> creations[c].tags[k]]) = 1

\* two creations whose captions spell one tag differently have both
\* answered, the second upsert having met the row of the first
C14_Witness ==
  /\ creations["c1"].stage = "done" /\ creations["c2"].stage = "done"
  /\ creations["c1"].caption.text = <<"#", "a">>
  /\ creations["c2"].caption.text = <<"#", "A">>
  /\ hashtags = <<<<"a">>>> /\ Len(post_hashtags) = 2

\* -------------------------------------------------- feed properties
FeedHandled == feedReq.kind = "feed" /\ feedResp # NoFeedResp

FeedIds == [k \in 1..Len(feedResp.posts) |-> feedResp.posts[k].id]

AuthorFiltered ==
  {i \in 1..Len(feedDb.posts) :
     feedReq.userId = "none" \/ feedDb.posts[i].user_id = feedReq.userId}

Tagged ==
  IF feedReq.hashtag = "t" THEN {feedDb.links[k] : k \in 1..Len(feedDb.links)}
  ELSE {}

\* ids is page feedReq.page of the posts F ranked by descending creation
\* time: ranks (p-1)L+1 .. min(pL, |F|), in rank order
PageOf(F, ids) ==
  LET lo == (feedReq.page - 1) * feedReq.limit
      hi == IF feedReq.page * feedReq.limit <= Cardinality(F)
              THEN feedReq.page * feedReq.limit ELSE Cardinality(F)
  IN /\ Len(ids) = IF hi > lo THEN hi - lo ELSE 0
     /\ \A k \in 1..Len(ids) :
          /\ ids[k] \in F
          /\ Cardinality({j \in F : j > ids[k]}) = lo + k - 1

\* C15: without hashtag filter (no filter, or the posts of one author) the
\* feed answers page p of limit L with the posts ranked (p-1)L+1 ..
\* min(pL, N) by descending creation time, N the number of posts the filter
\* lets through.
C15_FeedPage ==
  (FeedHandled /\ feedReq.hashtag = "none"
     /\ feedReq.userId \in {"none"} \cup KnownUsers)
    => /\ feedResp.status = 200
       /\ PageOf(AuthorFiltered, FeedIds)

\* a second page of one post, of the posts of one author among others
C15_Witness ==
  /\ FeedHandled /\ feedReq.userId = "me" /\ feedReq.hashtag = "none"
  /\ feedReq.page = 2 /\ feedReq.limit = 1
  /\ Len(feedDb.posts) = 3 /\ feedDb.posts[2].user_id = "you"
  /\ feedDb.posts[1].user_id = "me" /\ feedDb.posts[3].user_id = "me"
  /\ feedResp.status = 200
  /\ FeedIds = <<1>>

\* C16: with a hashtag filter the feed answers page p of limit L with the
\* posts ranked (p-1)L+1 .. pL by descending creation time among the posts
\* linked to the tag.
C16_HashtagPage ==
  (FeedHandled /\ feedReq.hashtag # "none")
    => /\ feedResp.status = 200
       /\ PageOf(Tagged, FeedIds)

\* the number of posts the request's filter lets through
FilteredTotal ==
  IF feedReq.hashtag # "none" THEN Cardinality(Tagged)
  ELSE Cardinality(AuthorFiltered)

\* C17: hasMore is true exactly when the filtered total exceeds page * limit,
\* for the unfiltered, the author-filtered and the hashtag-filtered feed.
C17_HasMore ==
  (FeedHandled /\ feedResp.status = 200)
    => (feedResp.hasMore <=> FilteredTotal > feedReq.page * feedReq.limit)

\* C18: without the post_stats view the feed answers as it does with the
\* view: same posts, same order, same counts, same hasMore.
C18_SameWithoutView ==
  (FeedHandled /\ ~feedDb.view)
    => feedResp = FeedGET([feedDb EXCEPT !.view = TRUE], feedReq)

\* C19: the absence of the post_stats view alone makes neither GET fail:
\* the feed answers 200 with the posts of the page and their counts, the
\* detail of an existing post answers 200 with that post.
C19_NoErrorWithoutView ==
  (feedResp # NoFeedResp /\ ~feedDb.view)
    => /\ (feedReq.kind = "feed" /\ feedReq.userId \in {"none"} \cup KnownUsers)
            => /\ feedResp.status = 200
               /\ feedReq.hashtag = "none" => PageOf(AuthorFiltered, FeedIds)
               /\ \A k \in 1..Len(feedResp.posts) :
                    feedResp.posts[k].likes_count =
                      Cardinality(feedDb.posts[feedResp.posts[k].id].likedBy)
       /\ (feedReq.kind = "detail" /\ feedReq.postId \in 1..Len(feedDb.posts))
            => /\ feedResp.status = 200
               /\ Len(feedResp.posts) = 1
               /\ feedResp.posts[1].id = feedReq.postId
               /\ feedResp.posts[1].likes_count =
                    Cardinality(feedDb.posts[feedReq.postId].likedBy)

\* a feed page with a liked post read from the base tables
C19_Witness ==
  /\ FeedHandled /\ ~feedDb.view /\ feedReq.hashtag = "none"
  /\ feedResp.status = 200
  /\ Len(feedResp.posts) = 2
  /\ feedResp.posts[1].likes_count = 1

BoolStr(b) == IF b THEN "true" ELSE "false"

\* C20: for a signed-in viewer every post of the feed carries isLiked and
\* isBookmarked, each telling whether the viewer's row exists; for a viewer
\* not signed in no post says liked or bookmarked.
C20_ViewerFlags ==
  (FeedHandled /\ feedResp.status = 200)
    => \A k \in 1..Len(feedResp.posts) :
         LET item == feedResp.posts[k] IN
         IF feedReq.auth
           THEN /\ item.isLiked = BoolStr("me" \in feedDb.posts[item.id].likedBy)
                /\ item.isBookmarked = (item.id \in feedDb.bookmarks)
           ELSE item.isLiked # "true" /\ ~item.isBookmarked

\* ------------------------------------------- owner-only route properties
\* the rows stored, or handed out by the last fetch, that hang on post p
HangsOn(rows, p) ==
  \/ \E r \in rows.likes \cup rows.bookmarks \cup rows.links : r.post_id = p
  \/ \E r \in rows.comments : r.post_id = p
  \/ \E r \in rows.mentions : r.post_id = p \/ r.comment_id = p

\* C21: once a post is deleted, no like, comment, hashtag link, bookmark or
\* mention (of the post or of its comments) that belonged to it remains
\* stored, and no fetch after the deletion hands one out.
C21_CascadeDeletion ==
  \A p \in store.deleted :
    /\ p \notin store.posts
    /\ ~HangsOn(store, p)
    /\ srvLast.op = "fetch" => ~HangsOn(srvLast.rows, p)

\* a feed fetch after the deletion of a post that had every kind of row,
\* answering the rows of the post that is left
C21_Witness ==
  /\ store.deleted = {1}
  /\ srvLast.op = "fetch" /\ srvLast.target = 0
  /\ srvLast.rows = RowsOfPosts(SeedStore({2}), {2})
  /\ srvLast.rows.mentions # {}

C29_RejectedEditChangesNothing ==
  [][(srvLast'.n = srvLast.n + 1 /\ srvLast'.op = "put"
        /\ srvLast'.status = 400)
       => accounts' = accounts]_vars

\* C30: a DELETE of a post answered with an error leaves the row and the
\* image object in place; the image object goes only together with the row.
C30_ErrorKeepsImage ==
  [][(srvLast'.n = srvLast.n + 1 /\ srvLast'.op = "deletePost")
       => /\ srvLast'.status >= 400
            => store'.posts = store.posts /\ store'.images = store.images
          /\ store'.images # store.images => store'.posts # store.posts]_vars

\* -------------------------------------------------- hashtag grid property
\* C23: a grid fetch that keeps failing with a timeout or a network error is
\* attempted at most 3 times (the first attempt and up to 2 retries, each
\* after a longer delay than the one before); when its last attempt has
\* failed it stops, the error is shown and the loading indicator is off.
C23_BoundedRetry ==
  [][\A f \in FetchIds :
       /\ fetches'[f].attempts <= MAX_RETRIES + 1
       /\ Len(fetches'[f].delays) <= MAX_RETRIES
       /\ \A i, j \in 1..Len(fetches'[f].delays) :
            i < j => fetches'[f].delays[i] < fetches'[f].delays[j]
       /\ (fetches[f].stage = "inflight" /\ fetches[f].attempts = MAX_RETRIES + 1
             /\ fetches'[f] # fetches[f])
            => fetches'[f].stage = "done"
       /\ (fetches[f].stage = "inflight" /\ fetches'[f].stage = "done"
             /\ fetches'[f].failed)
            => grid'.error /\ ~grid'.loading]_vars

\* three attempts, the last one failed too
C23_Witness ==
  \E f \in FetchIds :
    /\ fetches[f].stage = "done" /\ fetches[f].failed
    /\ fetches[f].attempts = 3
    /\ fetches[f].delays = <<1000, 2000>>
    /\ grid.error /\ ~grid.loading

\* ----------------------------------------------- suggestion box property
\* no timer armed and no request of the current query on its way
BoxQuiet == ~box.timer /\ \A l \in lookups : l.aborted

\* C24: for any sequence of edits of the query, the response to a superseded
\* query is never put on display after a newer query was entered, and once
\* typing has stopped the suggestions shown (if any) are those of the last
\* query.
C24_NoStaleSuggestions ==
  [][/\ (box'.shown # box.shown /\ box'.shown # "")
          => box'.shown = box'.query /\ box'.query = box.query
     /\ BoxQuiet' => box'.shown \in {box'.query, ""}]_vars

\* ------------------------------------------------------ caption property
\* C25: no persisted post has a caption longer than 2200 characters,
\* whichever client sent the create request.
C25_CaptionLength ==
  \A k \in 1..Len(capRows) : capRows[k] <= MAX_CAPTION_LENGTH

C26_PendingReleased ==
  /\ card.isToggling ~> (~card.isToggling /\ ~cardView.isToggling)
  /\ card.isBookmarking ~> (~card.isBookmarking /\ ~cardView.isBookmarking)
  /\ profile.isToggling ~> (~profile.isToggling /\ ~profileView.isToggling)
  /\ modal.isToggling ~> (~modal.isToggling /\ ~modalView.isToggling)
  /\ modal.isBookmarking ~> (~modal.isBookmarking /\ ~modalView.isBookmarking)

\* a follow toggle whose request ended in a network error, guard released
C26_Witness ==
  /\ last.act = "FollowSettle" /\ last.t.status = 0 /\ last.alert
  /\ ~profile.isToggling
  /\ tasks = {}


\* C28: the list of posts the home feed displays never holds the same post
\* id twice, whatever way load-more fetches, page-1 reloads after a new post
\* and posts created or deleted on the server interleave.
C28_NoDuplicateIds ==
  \A i, j \in 1..Len(scroll.posts) : scroll.posts[i] = scroll.posts[j] => i = j

====
